---- MODULE Spec2Model ----
(***************************************************************************)
(* Model of the scripts of .github/scripts.                                 *)
(*   Spec        the create_subagent tool (create_subagent.py) with its    *)
(*               HTTP helpers, the process environment it reads and the    *)
(*               workflow host it talks to, and the handling of an action  *)
(*               that gist (gist.py) and system_prompt do not recognise.   *)
(*   SpecPrompt  the system_prompt tool (system_prompt.py): os.environ,    *)
(*               the repository variable it reads and writes.              *)
(*   SpecFetch   the fetch_github_tool tool (fetch_github_tool.py): the    *)
(*               URL patterns, the local files, the agent's registry.      *)
(*   SpecTools   _filter_tools of agent_runner.py, a pure function of      *)
(*               STRANDS_TOOLS and the available tools.                    *)
(*   SpecRunner  the agent runner process (agent_runner.py): main and      *)
(*               run_agent, from sys.argv to the exit code.                *)
(*                                                                         *)
(* Representation.                                                         *)
(*   - A Python str is a sequence of atoms.  Text that comes from a host   *)
(*     response body (logs) is a sequence of one-character atoms, so that  *)
(*     len() and slicing are Len and SubSeq.  A literal of the program     *)
(*     text and an opaque argument value is one atom.  Concatenation and   *)
(*     f-string interpolation are \o.                                      *)
(*   - An optional value (None or a value) is a sequence of length 0 or 1. *)
(*   - A Python dict is a function from its keys.                          *)
(*   - An HTTP response is a record; raised = TRUE stands for requests     *)
(*     raising (connection error, timeout).                                *)
(***************************************************************************)
EXTENDS Integers, Sequences, FiniteSets, TLC

VARIABLES
    environ,    \* os.environ restricted to GITHUB_TOKEN: None (unset) or Some(str)
    hostRuns,   \* the workflow host's runs, oldest first: sequence of run statuses
    pc,         \* "idle": no tool call in progress; "returned": a call has ended;
                \* in the runner process the place it has reached ("main",
                \* "run_agent", "agent", "finished", "exited")
    tool,       \* the name of the tool that was called (None when idle)
    args,       \* the arguments of the call that ended (None when idle)
    result,     \* the value the call returned, or the exception that left it
    net,        \* the HTTP exchanges the call made, in order
    earlier,    \* history: an earlier call that is remembered (None if none is)
    os_environ, \* os.environ without GITHUB_TOKEN: variable name -> None or Some(str)
    files,      \* the local file system: path -> a directory or a file with its text
    argv,       \* sys.argv of the agent runner process
    agent,      \* the Agent: None when there is none; for fetch_github_tool its
                \* tool registry, for the runner its messages and the calls made
    stdout,     \* what the runner process has printed, in order
    exit_code   \* None while the runner process runs, then Some(its exit code)

\* The state of create_subagent and its host, and the rest: the environment
\* and the file system the other tools work on, the agent runner process.
runner == <<argv, agent, stdout, exit_code>>
vars == <<environ, hostRuns, pc, tool, args, result, net, earlier, os_environ, files, runner>>

\* ---------------------------------------------------------------- bounds

\* The host keeps at most MaxRuns runs of the workflow.
MaxRuns == 2

\* ------------------------------------------------------- python values

NoneV == <<>>
Some(x) == <<x>>
IsNone(o) == Len(o) = 0
\* Python truthiness of an optional str: None and "" are falsy.
Truthy(o) == Len(o) = 1 /\ Len(o[1]) > 0

Digits == <<"0", "1", "2", "3", "4", "5", "6", "7", "8", "9">>

RECURSIVE NatToStr(_)
NatToStr(n) ==
    IF n < 10 THEN <<Digits[n + 1]>>
    ELSE NatToStr(n \div 10) \o <<Digits[(n % 10) + 1]>>

\* str(n) of a Python int.
IntToStr(n) == IF n < 0 THEN <<"-">> \o NatToStr(0 - n) ELSE NatToStr(n)

\* f"{o}" of an optional str: None formats as the text None.
Fmt(o) == IF IsNone(o) THEN <<"None">> ELSE o[1]

EmptyDict == [k \in {} |-> <<>>]
Put(d, k, v) == [x \in (DOMAIN d) \cup {k} |-> IF x = k THEN v ELSE d[x]]
\* dict.get(k): None when the key is missing.
Get(d, k) == IF k \in DOMAIN d THEN Some(d[k]) ELSE NoneV

\* ------------------------------------------------------- HTTP exchange

NoBody == [kind |-> "none", data |-> [none |-> <<>>]]
\* response.json(): raises on "malformed"; "array" is valid JSON that is no object.
JsonObject(d) == [kind |-> "object", data |-> d]
JsonArray == [kind |-> "array", data |-> [none |-> <<>>]]
Malformed == [kind |-> "malformed", data |-> [none |-> <<>>]]

Raises(msg) ==
    [raised |-> TRUE, error |-> msg, status_code |-> 0, text |-> <<>>,
     body |-> NoBody, Location |-> NoneV]
Http(code, text, body, loc) ==
    [raised |-> FALSE, error |-> <<>>, status_code |-> code, text |-> text,
     body |-> body, Location |-> loc]

\* The headers of a request to the host API, built from the token.
ApiHeaders(token) ==
    [h \in {"Accept", "Authorization", "X-GitHub-Api-Version"} |->
        IF h = "Accept" THEN <<"application/vnd.github+json">>
        ELSE IF h = "Authorization" THEN <<"Bearer ">> \o token
        ELSE <<"2022-11-28">>]

\* One requests.post / requests.get call with the response it got.
Exchange(method, endpoint, url, headers, payload, follow, resp) ==
    [method |-> method, endpoint |-> endpoint, url |-> url, headers |-> headers,
     payload |-> payload, allow_redirects |-> follow, timeout |-> 30,
     response |-> resp]

\* ---------------------------------------------------------- exceptions

\* Messages of the exceptions response.json() and data.get() raise.
JsonDecodeError == <<"Expecting value: line 1 column 1 (char 0)">>
AttributeError == <<"'list' object has no attribute 'get'">>

\* An exception in flight: its class and str(e).
Raised(class, message) == [class |-> class, message |-> message]
\* The exception requests.get / requests.post raised instead of answering.
RequestException(resp) == Raised("RequestException", resp.error)
\* The value of a function that an exception leaves instead of returning.
Raise(e) == [raise |-> e]
IsRaise(r) == "raise" \in DOMAIN r

\* Mutant: except requests.RequestException as e
ExceptException_RequestsOnly(e) == e.class = "RequestException"
\* except Exception as e: every exception the calls raise derives from Exception.
ExceptException(e) ==
    e.class \in {"RequestException", "JSONDecodeError", "AttributeError", "ValueError",
                 "TypeError", "RuntimeError"}

\* try: ... except Exception as e: return handled; an exception the clause
\* does not match leaves the function.
Try(e, handled) == IF ExceptException(e) THEN handled ELSE Raise(e)

\* -------------------------------------------------- create_subagent.py

_get_github_token == IF IsNone(environ) THEN <<>> ELSE environ[1]

\* Mutant: os.environ.pop("GITHUB_TOKEN", "") takes the token out of the
\* environment when it reads it.
environ_get_pop == NoneV
\* os.environ after os.environ.get("GITHUB_TOKEN", ""): get only reads, and
\* nothing else in the module touches os.environ.
environ_get == environ

\* Mutant: response.ok, which every 2xx status satisfies.
DispatchOk_Any2xx(resp) == resp.status_code >= 200 /\ resp.status_code < 300
DispatchOk(resp) == resp.status_code = 204

\* Mutant: a dispatch that did not get 204 is sent a second time.
_dispatch_workflow_retry(repository, workflow_id, inputs, token, branch, resp) ==
    LET url == <<"https://api.github.com/repos/">> \o repository
               \o <<"/actions/workflows/">> \o workflow_id \o <<"/dispatches">>
        data == [ref |-> branch, inputs |-> inputs]
        ex == Exchange("POST", "dispatches", url, ApiHeaders(token), Some(data), TRUE, resp)
    IN  IF ~resp.raised /\ DispatchOk(resp)
        THEN [net |-> <<ex>>,
              ret |-> [success |-> TRUE,
                       message |-> <<"Workflow ">> \o workflow_id
                                   \o <<" dispatched successfully">>]]
        ELSE [net |-> <<ex, ex>>,
              ret |-> [success |-> FALSE,
                       message |-> <<"Failed to dispatch workflow">>]]

_dispatch_workflow(repository, workflow_id, inputs, token, branch, resp) ==
    LET url == <<"https://api.github.com/repos/">> \o repository
               \o <<"/actions/workflows/">> \o workflow_id \o <<"/dispatches">>
        data == [ref |-> branch, inputs |-> inputs]
        ex == Exchange("POST", "dispatches", url, ApiHeaders(token), Some(data), TRUE, resp)
    IN  [net |-> <<ex>>,
         ret |->
            IF resp.raised
            THEN Try(RequestException(resp),
                     [success |-> FALSE,
                      message |-> <<"Error dispatching workflow: ">> \o resp.error])
            ELSE IF DispatchOk(resp)
            THEN [success |-> TRUE,
                  message |-> <<"Workflow ">> \o workflow_id
                              \o <<" dispatched successfully">>]
            ELSE [success |-> FALSE,
                  message |-> <<"Failed to dispatch workflow: ">>
                              \o IntToStr(resp.status_code) \o <<" - ">> \o resp.text]]

\* Mutant: any 2xx status counts as success.
MetadataOk_Any2xx(resp) == resp.status_code >= 200 /\ resp.status_code < 300
MetadataOk(resp) == resp.status_code = 200

_check_workflow_run_status(repository, run_id, token, resp) ==
    LET url == <<"https://api.github.com/repos/">> \o repository
               \o <<"/actions/runs/">> \o run_id
        ex == Exchange("GET", "run", url, ApiHeaders(token), NoneV, TRUE, resp)
        data == resp.body.data
        caught(e) == Try(e, [success |-> FALSE,
                             message |-> <<"Error checking workflow run: ">>
                                         \o e.message])
    IN  [net |-> <<ex>>,
         ret |->
            IF resp.raised THEN caught(RequestException(resp))
            ELSE IF MetadataOk(resp)
            THEN IF resp.body.kind = "object"
                 THEN [success |-> TRUE,
                       status |-> Get(data, "status"),
                       conclusion |-> Get(data, "conclusion"),
                       html_url |-> Get(data, "html_url"),
                       name |-> Get(data, "name"),
                       workflow_id |-> Get(data, "workflow_id"),
                       created_at |-> Get(data, "created_at"),
                       updated_at |-> Get(data, "updated_at")]
                 ELSE IF resp.body.kind = "array"
                 THEN caught(Raised("AttributeError", AttributeError))
                 ELSE caught(Raised("JSONDecodeError", JsonDecodeError))
            ELSE [success |-> FALSE,
                  message |-> <<"Failed to check workflow run status: ">>
                              \o IntToStr(resp.status_code) \o <<" - ">> \o resp.text]]

\* The logs endpoint answers with a redirect.
IsRedirect(resp) == resp.status_code = 302
DownloadOk(dl) == dl.status_code = 200

\* Mutant: requests.get(download_url, headers=headers, timeout=30)
DownloadHeaders_Forwarded(token) == ApiHeaders(token)
\* requests.get(download_url, timeout=30): the download is asked without headers.
DownloadHeaders(token) == EmptyDict

\* Mutant: the download is asked whether or not the answer carried a Location.
HasDownloadUrl_Unchecked(download_url) == TRUE
\* if download_url:
HasDownloadUrl(download_url) == Truthy(download_url)

_get_workflow_run_logs(repository, run_id, token, resp, dl) ==
    LET url == <<"https://api.github.com/repos/">> \o repository
               \o <<"/actions/runs/">> \o run_id \o <<"/logs">>
        ex == Exchange("GET", "logs", url, ApiHeaders(token), NoneV, FALSE, resp)
        download_url == resp.Location
        ex2 == Exchange("GET", "download", Fmt(download_url), DownloadHeaders(token), NoneV,
                       TRUE, dl)
        caught(e) == Try(e, [success |-> FALSE,
                             message |-> <<"Error getting workflow run logs: ">>
                                         \o e.message])
    IN  IF resp.raised THEN [net |-> <<ex>>, ret |-> caught(RequestException(resp))]
        ELSE IF IsRedirect(resp)
        THEN IF HasDownloadUrl(download_url)
             THEN [net |-> <<ex, ex2>>,
                   ret |->
                      IF dl.raised THEN caught(RequestException(dl))
                      ELSE IF DownloadOk(dl)
                      THEN [success |-> TRUE, logs |-> dl.text]
                      ELSE [success |-> FALSE,
                            message |-> <<"Failed to download logs: ">>
                                        \o IntToStr(dl.status_code)]]
             ELSE [net |-> <<ex>>,
                   ret |-> [success |-> FALSE,
                            message |-> <<"No download URL found in response">>]]
        ELSE [net |-> <<ex>>,
              ret |-> [success |-> FALSE,
                       message |-> <<"Failed to get workflow run logs: ">>
                                   \o IntToStr(resp.status_code) \o <<" - ">>
                                   \o resp.text]]

\* ------------------------------------------------------ log scraping
\* Regular expressions over text of one-character atoms.

Whitespace == {" ", "\t", "\n", "\r", "\f"}
EventLit == <<"E", "v", "e", "n", "t", ":">>
PythonC == <<"p", "y", "t", "h", "o", "n", " ", "-", "c">>

MinOf(S) == CHOOSE x \in S : \A y \in S : x <= y
MaxOf(S) == CHOOSE x \in S : \A y \in S : x >= y

IsAt(lit, s, i) ==
    /\ i >= 1
    /\ i + Len(lit) - 1 <= Len(s)
    /\ s[i] = lit[1]
    /\ SubSeq(s, i, i + Len(lit) - 1) = lit

\* First index at or after i that holds no whitespace (Len(s) + 1 if none).
RECURSIVE SkipWhitespace(_, _)
SkipWhitespace(s, i) ==
    IF i <= Len(s) /\ s[i] \in Whitespace THEN SkipWhitespace(s, i + 1) ELSE i

RECURSIVE LStrip(_)
LStrip(s) == IF Len(s) > 0 /\ s[1] \in Whitespace THEN LStrip(Tail(s)) ELSE s
RECURSIVE RStrip(_)
RStrip(s) ==
    IF Len(s) > 0 /\ s[Len(s)] \in Whitespace
    THEN RStrip(SubSeq(s, 1, Len(s) - 1)) ELSE s
\* str.strip()
Strip(s) == RStrip(LStrip(s))

\* r"Event:\s*(.*?)\n.*?python -c" with re.DOTALL, tried at index st:
\* \s* is greedy and gives back, (.*?) and .*? are lazy and match newlines.
TaskMatchAt(s, st) ==
    LET p == st + Len(EventLit)
        markers == {q \in p..Len(s) : IsAt(PythonC, s, q)}
        newlines == {n \in p..Len(s) : s[n] = "\n" /\ \E q \in markers : q > n}
        wsEnd == SkipWhitespace(s, p)
        g == IF wsEnd <= MaxOf(newlines) THEN wsEnd ELSE MaxOf(newlines)
        e == MinOf({n \in newlines : n >= g})
        q == MinOf({m \in markers : m > e})
    IN  IF IsAt(EventLit, s, st) /\ newlines # {}
        THEN [ok |-> TRUE, group |-> SubSeq(s, g, e - 1), end |-> q + Len(PythonC)]
        ELSE [ok |-> FALSE, group |-> <<>>, end |-> st]

\* re.findall: the groups of the non-overlapping matches, left to right.
RECURSIVE TaskFindAll(_, _)
\* The match m and the matches after its end.
TaskFindNext(s, m) == <<m.group>> \o TaskFindAll(s, m.end)
TaskFindAll(s, pos) ==
    LET starts == {i \in pos..Len(s) : TaskMatchAt(s, i).ok}
    IN  IF starts = {} THEN <<>>
        ELSE TaskFindNext(s, TaskMatchAt(s, MinOf(starts)))

\* responses.append({"prompt": message.strip()}) for every match.
Responses(message_matches) ==
    [i \in 1..Len(message_matches) |-> [prompt |-> Strip(message_matches[i])]]

_parse_agent_responses_from_logs(logs) == Responses(TaskFindAll(logs, 1))

\* r"Event:\s*(.*?)(?:\n|\r\n)" tried at index st: "." stops at a newline.
EventMatchAt(s, st) ==
    LET p == st + Len(EventLit)
        newlines == {n \in p..Len(s) : s[n] = "\n"}
        wsEnd == SkipWhitespace(s, p)
        g == IF wsEnd <= MaxOf(newlines) THEN wsEnd ELSE MaxOf(newlines)
        n0 == MinOf({n \in newlines : n >= g})
        e == IF n0 - 1 >= g /\ s[n0 - 1] = "\r" THEN n0 - 1 ELSE n0
    IN  IF IsAt(EventLit, s, st) /\ newlines # {}
        THEN [ok |-> TRUE, group |-> SubSeq(s, g, e - 1)]
        ELSE [ok |-> FALSE, group |-> <<>>]

\* re.search: the leftmost match, None when there is none.
EventSearch(s) ==
    LET starts == {i \in 1..Len(s) : EventMatchAt(s, i).ok}
    IN  IF starts = {} THEN NoneV ELSE Some(EventMatchAt(s, MinOf(starts)).group)

\* ---------------------------------------------------------- list runs

ListOk(resp) == resp.status_code = 200

\* The summary _list_workflow_runs keeps of one run of the response.
RunSummary(run) ==
    [id |-> Get(run, "id"), name |-> Get(run, "name"), status |-> Get(run, "status"),
     conclusion |-> Get(run, "conclusion"), created_at |-> Get(run, "created_at"),
     updated_at |-> Get(run, "updated_at"), html_url |-> Get(run, "html_url")]

_list_workflow_runs(repository, workflow_id, token, per_page, resp) ==
    LET url == <<"https://api.github.com/repos/">> \o repository
               \o <<"/actions/workflows/">> \o workflow_id \o <<"/runs">>
        params == [per_page |-> per_page]
        ex == Exchange("GET", "runs", url, ApiHeaders(token), Some(params), TRUE, resp)
        data == resp.body.data
        workflow_runs == IF "workflow_runs" \in DOMAIN data
                         THEN data.workflow_runs ELSE <<>>
        caught(e) == Try(e, [success |-> FALSE,
                             message |-> <<"Error listing workflow runs: ">>
                                         \o e.message])
    IN  [net |-> <<ex>>,
         ret |->
            IF resp.raised THEN caught(RequestException(resp))
            ELSE IF ListOk(resp)
            THEN IF resp.body.kind = "object"
                 THEN [success |-> TRUE,
                       runs |-> [i \in 1..Len(workflow_runs) |->
                                    RunSummary(workflow_runs[i])],
                       total_count |-> IF "total_count" \in DOMAIN data
                                       THEN data.total_count ELSE 0]
                 ELSE IF resp.body.kind = "array"
                 THEN caught(Raised("AttributeError", AttributeError))
                 ELSE caught(Raised("JSONDecodeError", JsonDecodeError))
            ELSE [success |-> FALSE,
                  message |-> <<"Failed to list workflow runs: ">>
                              \o IntToStr(resp.status_code) \o <<" - ">> \o resp.text]]

\* ------------------------------------------------- create_subagent tool

Text(t) == [text |-> t]
\* Mutant: the error text under a message key, as the helpers return it.
Error_Message(t) == [status |-> "error", message |-> t]
Error(t) == [status |-> "error", content |-> <<Text(t)>>]
Success(content) == [status |-> "success", content |-> content]

\* Mutant: if token is None, which the default "" of os.environ.get never is.
TokenMissing_IsNone(token) == FALSE
\* if not token
TokenMissing(token) == Len(token) = 0
\* Mutant: if task is None
TaskMissing_IsNone(task) == IsNone(task)
\* if not task, if not run_id
TaskMissing(task) == ~Truthy(task)
\* Mutant: if run_id is None
RunIdMissing_IsNone(run_id) == IsNone(run_id)
RunIdMissing(run_id) == ~Truthy(run_id)
\* if x is not None
Provided(o) == ~IsNone(o)

\* Mutant: inputs[key] = str(value or ""), whether provided or not.
AddInput_Always(inputs, key, o) ==
    Put(inputs, key, IF Provided(o) THEN o[1] ELSE <<>>)
\* inputs[key] = str(value) only when the parameter is provided.
AddInput(inputs, key, o) == IF Provided(o) THEN Put(inputs, key, o[1]) ELSE inputs

\* Mutant: if context, which drops an empty context.
TaskContext_Truthy(task, context) ==
    <<"Task: ">> \o task
    \o (IF Truthy(context) THEN <<"\nContext: ">> \o context[1] ELSE <<>>)

TaskContext(task, context) ==
    <<"Task: ">> \o task
    \o (IF Provided(context) THEN <<"\nContext: ">> \o context[1] ELSE <<>>)

\* Mutant: inputs["max_tokens"] = max_tokens, the int as it was passed.
MaxTokensInput_Int(max_tokens) == max_tokens[1]
\* str(max_tokens) of the int parameter.
MaxTokensInput(max_tokens) == IntToStr(max_tokens[1])

BuildInputs(a) ==
    LET i1 == AddInput(EmptyDict, "system_prompt", a.system_prompt)
        i2 == AddInput(i1, "model", a.model)
        i3 == AddInput(i2, "provider", a.provider)
        i4 == IF Provided(a.max_tokens)
              THEN Put(i3, "max_tokens", MaxTokensInput(a.max_tokens)) ELSE i3
        i5 == AddInput(i4, "tools", a.tools)
        i6 == AddInput(i5, "agent_runner", a.agent_runner)
    IN  Put(i6, "task", TaskContext(a.task[1], a.context))

\* content.append({"text": f"{label}{value}"}) only when the parameter is provided.
Echo(label, o) == IF Provided(o) THEN <<Text(<<label>> \o o[1])>> ELSE <<>>

CreateContent(a, message) ==
    <<Text(<<"Sub-agent created successfully: ">> \o message),
      Text(<<"Task delegated: ">> \o a.task[1]),
      Text(<<"Repository: ">> \o a.repository),
      Text(<<"Workflow: ">> \o a.workflow_id),
      Text(<<"Branch: ">> \o a.branch)>>
    \o Echo("Model: ", a.model)
    \o Echo("Provider: ", a.provider)
    \o (IF Provided(a.max_tokens)
        THEN <<Text(<<"Max Tokens: ">> \o IntToStr(a.max_tokens[1]))>> ELSE <<>>)
    \o Echo("Tools: ", a.tools)
    \o Echo("Agent Runner: ", a.agent_runner)
    \o <<Text(<<"To check status, use the 'list' action to find the run ID, then use 'status' action.">>)>>

\* The result of create once the dispatch d has been made.
CreateDispatched(a, d) ==
    [net |-> d.net,
     result |-> IF IsRaise(d.ret) THEN d.ret
                ELSE IF d.ret.success
                THEN Success(CreateContent(a, d.ret.message))
                ELSE Error(<<"Failed to create sub-agent: ">> \o d.ret.message)]

CreateAction(a, token, host) ==
    IF TaskMissing(a.task)
    THEN [net |-> <<>>,
          result |-> Error(<<"Error: 'task' parameter is required for the create action">>)]
    ELSE CreateDispatched(a, _dispatch_workflow(a.repository, a.workflow_id,
                                                BuildInputs(a), token, a.branch,
                                                host.dispatch))

\* len(logs) > 1000 truncates the excerpt.
LogsLimit == 1000

StatusText(r) ==
    <<"Status: ">> \o Fmt(r.status)
    \o (IF Truthy(r.conclusion) THEN <<", Conclusion: ">> \o r.conclusion[1] ELSE <<>>)

MetadataContent(r) ==
    <<Text(<<"Sub-agent run status: ">> \o StatusText(r)),
      Text(<<"Name: ">> \o Fmt(r.name)),
      Text(<<"Created: ">> \o Fmt(r.created_at)),
      Text(<<"Updated: ">> \o Fmt(r.updated_at)),
      Text(<<"Run URL: ">> \o Fmt(r.html_url))>>

TaskEntries(agent_responses) ==
    IF Len(agent_responses) > 0
    THEN <<Text(<<"Agent Tasks:">>)>>
         \o [idx \in 1..Len(agent_responses) |->
                Text(<<"Task ">> \o IntToStr(idx) \o <<": ">>
                     \o agent_responses[idx].prompt)]
    ELSE <<>>

AgentTasks(logs) == TaskEntries(_parse_agent_responses_from_logs(logs))

EventText(event_match) ==
    IF Provided(event_match)
    THEN <<Text(<<"Event: ">> \o Strip(event_match[1]))>>
    ELSE <<>>

EventEntry(logs) == EventText(EventSearch(logs))

\* Mutant: len(logs) >= 1000
LogsExcerpt_AtLimit(logs) ==
    IF Len(logs) >= LogsLimit
    THEN SubSeq(logs, 1, LogsLimit) \o <<"...\n[Logs truncated due to length]">>
    ELSE logs

LogsExcerpt(logs) ==
    IF Len(logs) > LogsLimit
    THEN SubSeq(logs, 1, LogsLimit) \o <<"...\n[Logs truncated due to length]">>
    ELSE logs

\* The Markdown fence of three backquote characters around the excerpt, as one atom.
CodeFence == <<"<fence>">>

\* Mutant: elif event_match, which shows the Event entry only when no task
\* announcement was found.
LogsContent_Either(logs) ==
    AgentTasks(logs)
    \o (IF Len(AgentTasks(logs)) = 0 THEN EventEntry(logs) ELSE <<>>)
    \o <<Text(<<"Run Logs (excerpt):\n">> \o CodeFence \o <<"\n">> \o LogsExcerpt(logs)
              \o <<"\n">> \o CodeFence)>>

LogsContent(logs) ==
    AgentTasks(logs) \o EventEntry(logs)
    \o <<Text(<<"Run Logs (excerpt):\n">> \o CodeFence \o <<"\n">> \o LogsExcerpt(logs)
              \o <<"\n">> \o CodeFence)>>

\* Mutant: fetch the logs of every run that has left the queue.
RunCompleted_Started(r) == r.status # Some(<<"queued">>)
\* if result.get("status") == "completed"
RunCompleted(r) == r.status = Some(<<"completed">>)

\* Mutant: logs_result.get("logs", "") rendered without looking at success.
LogsSection_Unchecked(logs_result) ==
    LogsContent(IF logs_result.success THEN logs_result.logs ELSE <<>>)
\* What a logs result adds to the content: nothing unless the fetch succeeded.
LogsSection(logs_result) ==
    IF logs_result.success THEN LogsContent(logs_result.logs) ELSE <<>>

\* Mutant: a failed logs fetch fails the status action.
StatusResult_Strict(r, fetched) ==
    IF Provided(fetched) /\ ~fetched[1].success
    THEN Error(<<"Failed to get sub-agent logs: ">> \o fetched[1].message)
    ELSE Success(MetadataContent(r)
                 \o (IF Provided(fetched) THEN LogsContent(fetched[1].logs) ELSE <<>>))

\* The value the status action returns once the metadata fetch has succeeded;
\* fetched is None when the logs were not asked for.
StatusResult(r, fetched) ==
    Success(MetadataContent(r)
            \o (IF Provided(fetched) THEN LogsSection(fetched[1]) ELSE <<>>))

\* The result of status after a successful metadata fetch c and the logs fetch,
\* if one was made (None otherwise).
StatusFetched(c, l) ==
    [net |-> c.net \o (IF Provided(l) THEN l[1].net ELSE <<>>),
     result |-> IF Provided(l) /\ IsRaise(l[1].ret) THEN l[1].ret
                ELSE StatusResult(c.ret,
                                  IF Provided(l) THEN Some(l[1].ret) ELSE NoneV)]

\* The result of status once the metadata fetch c has been made.
StatusChecked(a, token, host, c) ==
    IF IsRaise(c.ret) THEN [net |-> c.net, result |-> c.ret]
    ELSE IF c.ret.success
    THEN StatusFetched(c, IF RunCompleted(c.ret)
                          THEN Some(_get_workflow_run_logs(a.repository, a.run_id[1],
                                                           token, host.logs,
                                                           host.download))
                          ELSE NoneV)
    ELSE [net |-> c.net,
          result |-> Error(<<"Failed to check sub-agent status: ">> \o c.ret.message)]

StatusAction(a, token, host) ==
    IF RunIdMissing(a.run_id)
    THEN [net |-> <<>>,
          result |-> Error(<<"Error: run_id parameter is required for the status action">>)]
    ELSE StatusChecked(a, token, host,
                       _check_workflow_run_status(a.repository, a.run_id[1], token,
                                                  host.run))

FmtInt(o) == IF IsNone(o) THEN <<"None">> ELSE IntToStr(o[1])

RunInfo(run) ==
    <<"Run ID: ">> \o FmtInt(run.id) \o <<"\n">>
    \o <<"Name: ">> \o Fmt(run.name) \o <<"\n">>
    \o <<"Status: ">> \o Fmt(run.status) \o <<"\n">>
    \o <<"Conclusion: ">> \o Fmt(run.conclusion) \o <<"\n">>
    \o <<"Created: ">> \o Fmt(run.created_at) \o <<"\n">>
    \o <<"Updated: ">> \o Fmt(run.updated_at) \o <<"\n">>
    \o <<"URL: ">> \o Fmt(run.html_url) \o <<"\n">>

\* per_page default of _list_workflow_runs
PerPage == 5

\* Mutant: an empty list of runs is reported as a failure.
ListFetched_EmptyIsError(l) ==
    [net |-> l.net,
     result |->
        IF IsRaise(l.ret) THEN l.ret
        ELSE IF l.ret.success /\ Len(l.ret.runs) > 0
        THEN Success(
               <<Text(<<"Recent sub-agent runs (showing ">>
                      \o IntToStr(Len(l.ret.runs)) \o <<" of ">>
                      \o IntToStr(l.ret.total_count) \o <<"):">>)>>
               \o [i \in 1..Len(l.ret.runs) |-> Text(RunInfo(l.ret.runs[i]))])
        ELSE IF l.ret.success
        THEN Error(<<"Failed to list sub-agent runs: ">> \o <<"No recent sub-agent runs found">>)
        ELSE Error(<<"Failed to list sub-agent runs: ">> \o l.ret.message)]

\* The result of list once the runs have been fetched.
ListFetched(l) ==
    [net |-> l.net,
     result |->
        IF IsRaise(l.ret) THEN l.ret
        ELSE IF l.ret.success
        THEN IF Len(l.ret.runs) = 0
             THEN Success(<<Text(<<"No recent sub-agent runs found">>)>>)
             ELSE Success(
                    <<Text(<<"Recent sub-agent runs (showing ">>
                           \o IntToStr(Len(l.ret.runs)) \o <<" of ">>
                           \o IntToStr(l.ret.total_count) \o <<"):">>)>>
                    \o [i \in 1..Len(l.ret.runs) |-> Text(RunInfo(l.ret.runs[i]))]
                    \o <<Text(<<"To check the status of a specific run, use: create_subagent(action=\"status\", repository=\"owner/repo\", workflow_id=\"workflow.yml\", run_id=\"RUN_ID\")">>)>>)
        ELSE Error(<<"Failed to list sub-agent runs: ">> \o l.ret.message)]

\* Mutant: list goes through the dispatch helper before it asks for the runs.
ListAction_Dispatching(a, token, host) ==
    [net |-> _dispatch_workflow(a.repository, a.workflow_id, EmptyDict, token,
                                a.branch, host.dispatch).net
             \o _list_workflow_runs(a.repository, a.workflow_id, token, PerPage,
                                    host.list).net,
     result |-> ListFetched(_list_workflow_runs(a.repository, a.workflow_id, token,
                                                PerPage, host.list)).result]

ListAction(a, token, host) ==
    ListFetched(_list_workflow_runs(a.repository, a.workflow_id, token, PerPage,
                                    host.list))

\* The tool: returns the result and the HTTP exchanges it made against host,
\* the responses the host gives to each request.

\* Mutant: the parameters of the action are validated before the token is
\* looked at.
Dispatch_ValidateFirst(a, token, host) ==
    IF /\ TokenMissing(token)
       /\ \/ a.action = <<"create">> /\ ~TaskMissing(a.task)
          \/ a.action = <<"status">> /\ ~RunIdMissing(a.run_id)
          \/ a.action = <<"list">>
    THEN [net |-> <<>>,
          result |-> Error(<<"Error: GitHub token not available. Cannot create or manage sub-agents.">>)]
    ELSE IF a.action = <<"create">> THEN CreateAction(a, token, host)
    ELSE IF a.action = <<"status">> THEN StatusAction(a, token, host)
    ELSE IF a.action = <<"list">> THEN ListAction(a, token, host)
    ELSE [net |-> <<>>,
          result |-> Error(<<"Error: Unknown action '">> \o a.action
                           \o <<"'. Valid actions are ">>
                           \o <<"create", ", ", "status", ", ", "list">>)]

Dispatch(a, token, host) ==
    IF TokenMissing(token)
    THEN [net |-> <<>>,
          result |-> Error(<<"Error: GitHub token not available. Cannot create or manage sub-agents.">>)]
    ELSE IF a.action = <<"create">> THEN CreateAction(a, token, host)
    ELSE IF a.action = <<"status">> THEN StatusAction(a, token, host)
    ELSE IF a.action = <<"list">> THEN ListAction(a, token, host)
    ELSE [net |-> <<>>,
          result |-> Error(<<"Error: Unknown action '">> \o a.action
                           \o <<"'. Valid actions are ">>
                           \o <<"create", ", ", "status", ", ", "list">>)]

\* The try block around the body of the tool: an exception e that left the
\* body is returned as an error result.
Guarded(out) ==
    IF IsRaise(out.result)
    THEN [out EXCEPT !.result = Try(out.result.raise,
                                    Error(<<"Error: ">> \o out.result.raise.message))]
    ELSE out

create_subagent(a, host) == Guarded(Dispatch(a, _get_github_token, host))

\* -------------------------------------------------------------- gist.py
\* The gist tool, for a call whose action none of its branches recognises.

\* str.join
RECURSIVE Join(_, _)
Join(sep, names) ==
    IF Len(names) = 0 THEN <<>>
    ELSE IF Len(names) = 1 THEN <<names[1]>>
    ELSE <<names[1], sep>> \o Join(sep, Tail(names))

\* The character U+274C that the error texts of gist start with, as one atom.
CrossMark == <<"<cross mark>">>

\* The literals the if / elif chain of gist compares action with.
GistBranches ==
    {"create", "list", "get", "update", "delete", "fork", "star", "unstar",
     "is_starred", "comments", "add_comment", "edit_comment", "delete_comment"}
GistRecognises(action) == \E b \in GistBranches : action = <<b>>

\* Mutant: the list of the else branch misses the two actions added last.
valid_actions_stale ==
    <<"create", "list", "get", "update", "delete", "fork", "star", "unstar",
      "is_starred", "comments", "add_comment">>
valid_actions ==
    <<"create", "list", "get", "update", "delete", "fork", "star", "unstar",
      "is_starred", "comments", "add_comment", "edit_comment", "delete_comment">>

\* The else branch of the chain.
gist(a) ==
    Error(CrossMark \o <<" Unknown action '">> \o a.action
          \o <<"'. Valid actions are: ">> \o Join(", ", valid_actions))

\* ----------------------------------------------------- system_prompt.py
\* The system_prompt tool: the prompt is kept in a variable of os.environ and,
\* when a repository is given, in a variable of the repository.

\* os.environ.get("GITHUB_TOKEN", ""): the token, "" when it is not set.
_get_github_token_or_empty == IF IsNone(environ) THEN <<>> ELSE environ[1]

\* os.environ.get(name, ""), os.environ[name] = value, os.environ.pop(name, None)
EnvGet(env, name) == IF IsNone(env[name[1]]) THEN <<>> ELSE env[name[1]][1]
EnvSet(env, name, value) == [env EXCEPT ![name[1]] = Some(value)]
EnvPop(env, name) == [env EXCEPT ![name[1]] = NoneV]

\* A request, with os.environ as it stood when the request was sent.
Sent(ex, env) ==
    [f \in (DOMAIN ex) \cup {"environ"} |-> IF f = "environ" THEN env ELSE ex[f]]

VariableUrl(repository, name) ==
    <<"https://api.github.com/repos/">> \o repository
    \o <<"/actions/variables/">> \o name

_get_github_repository_variable(repository, name, token, env, resp) ==
    LET ex == Sent(Exchange("GET", "variable", VariableUrl(repository, name),
                            ApiHeaders(token), NoneV, TRUE, resp), env)
        caught(e) == Try(e, [success |-> FALSE,
                             message |-> <<"Error fetching GitHub variable: ">>
                                         \o e.message,
                             value |-> <<>>])
    IN  [net |-> <<ex>>,
         ret |->
            IF resp.raised THEN caught(RequestException(resp))
            ELSE IF resp.status_code = 200
            THEN IF resp.body.kind = "object"
                 THEN [success |-> TRUE,
                       message |-> <<"Variable ">> \o name \o <<" fetched successfully">>,
                       value |-> IF "value" \in DOMAIN resp.body.data
                                 THEN resp.body.data.value ELSE <<>>]
                 ELSE IF resp.body.kind = "array"
                 THEN caught(Raised("AttributeError", AttributeError))
                 ELSE caught(Raised("JSONDecodeError", JsonDecodeError))
            ELSE [success |-> FALSE,
                  message |-> <<"Failed to fetch variable: ">>
                              \o IntToStr(resp.status_code) \o <<" - ">> \o resp.text,
                  value |-> <<>>]]

\* The prompt once the repository variable has been asked for: a value that is
\* not empty is stored in os.environ.
SystemPromptFetched(variable_name, env, fetched) ==
    IF fetched.ret.success
    THEN [net |-> fetched.net,
          environ |-> IF Len(fetched.ret.value) > 0
                      THEN EnvSet(env, variable_name, fetched.ret.value) ELSE env,
          ret |-> fetched.ret.value]
    ELSE [net |-> fetched.net, environ |-> env, ret |-> <<>>]

_get_system_prompt(repository, variable_name, token, env, resp) ==
    IF Len(EnvGet(env, variable_name)) > 0
    THEN [net |-> <<>>, environ |-> env, ret |-> EnvGet(env, variable_name)]
    ELSE IF Truthy(repository) /\ Len(token) > 0
    THEN SystemPromptFetched(variable_name, env,
                             _get_github_repository_variable(repository[1], variable_name,
                                                             token, env, resp))
    ELSE [net |-> <<>>, environ |-> env, ret |-> <<>>]

\* Mutant: the variable in memory is left as it was.
_update_system_prompt_Skipped(new_prompt, variable_name, env) == env
_update_system_prompt(new_prompt, variable_name, env) ==
    EnvSet(env, variable_name, new_prompt)

\* "\n".join(lines) of a list of str.
RECURSIVE JoinLines(_, _)
JoinLines(sep, lines) ==
    IF Len(lines) = 0 THEN <<>>
    ELSE IF Len(lines) = 1 THEN lines[1]
    ELSE lines[1] \o <<sep>> \o JoinLines(sep, Tail(lines))

\* event_context.append(f"{label}{value}") when the variable is set and not empty.
ContextLine(label, value) == IF Len(value) > 0 THEN <<<<label>> \o value>> ELSE <<>>

_get_github_event_context(env) ==
    JoinLines("\n",
              ContextLine("Repository: ", EnvGet(env, <<"GITHUB_REPOSITORY">>))
              \o ContextLine("Event Type: ", EnvGet(env, <<"GITHUB_EVENT_NAME">>))
              \o ContextLine("Actor: ", EnvGet(env, <<"GITHUB_ACTOR">>)))

\* requests.patch is not inside a try block: an exception leaves the function.
_update_github_repository_variable(repository, name, value, token, env, resp) ==
    LET data == [name |-> name, value |-> value]
        ex == Sent(Exchange("PATCH", "variable", VariableUrl(repository, name),
                            ApiHeaders(token), Some(data), TRUE, resp), env)
    IN  [net |-> <<ex>>,
         ret |->
            IF resp.raised THEN Raise(RequestException(resp))
            ELSE IF resp.status_code = 204
            THEN [success |-> TRUE,
                  message |-> <<"Variable ">> \o name \o <<" updated successfully">>]
            ELSE [success |-> FALSE,
                  message |-> <<"Failed to update variable: ">>
                              \o IntToStr(resp.status_code) \o <<" - ">> \o resp.text]]

Failure(content) == [status |-> "error", content |-> content]
NoTokenText == <<"Error: GitHub token not available. Cannot update repository variable.">>

\* The result of update, add_context and reset once the repository variable has
\* been patched (u): the entry about the memory, then the entry about GitHub.
Patched(env, net0, u, done, ok, failed) ==
    [net |-> net0 \o u.net, environ |-> env,
     result |->
        IF IsRaise(u.ret) THEN u.ret
        ELSE IF u.ret.success
        THEN Success(<<Text(done), Text(<<ok>> \o u.ret.message)>>)
        ELSE Failure(<<Text(done), Text(<<failed>> \o u.ret.message)>>)]

\* The end of update, add_context and reset: env is os.environ with the variable
\* changed, net0 the requests made so far, value the new value of the variable.
Persist(a, token, env, net0, value, resp, noToken, done, ok, failed, local) ==
    IF Truthy(a.repository)
    THEN IF Len(token) = 0
         THEN [net |-> net0, environ |-> env, result |-> Failure(noToken)]
         ELSE Patched(env, net0,
                      _update_github_repository_variable(a.repository[1], a.variable_name,
                                                         value, token, env, resp),
                      done, ok, failed)
    ELSE [net |-> net0, environ |-> env, result |-> Success(<<Text(local)>>)]

\* if not os.environ.get(variable_name) and repository, evaluated on os.environ
\* as _get_system_prompt left it.
ViewSource(a, env) ==
    IF Len(EnvGet(env, a.variable_name)) = 0 /\ Truthy(a.repository)
    THEN <<"GitHub repository ">> \o a.repository[1]
    ELSE <<"local environment">>

\* The result of view once the prompt has been read (g).
Viewed(a, g) ==
    [net |-> g.net, environ |-> g.environ,
     result |-> Success(<<Text(<<"Current system prompt from ">> \o a.variable_name
                              \o <<" (from ">> \o ViewSource(a, g.environ)
                              \o <<"):\n\n">> \o g.ret)>>)]

ViewAction(a, env, token, host) ==
    Viewed(a, _get_system_prompt(a.repository, a.variable_name, token, env, host.get))

InMemory(text, a) == <<text>> \o a.variable_name \o <<")">>

UpdateAction(a, env, token, host) ==
    IF ~Truthy(a.prompt)
    THEN [net |-> <<>>, environ |-> env,
          result |-> Error(<<"Error: prompt parameter is required for the update action">>)]
    ELSE Persist(a, token, _update_system_prompt(a.prompt[1], a.variable_name, env),
                 <<>>, a.prompt[1], host.patch,
                 <<Text(NoTokenText)>>,
                 InMemory("System prompt updated successfully in memory (", a),
                 "GitHub repository variable updated: ",
                 "GitHub repository variable update failed: ",
                 InMemory("System prompt updated successfully in memory (", a))

\* Mutant: the context follows the prompt on the next line.
NewPrompt_OneNewline(current_prompt, context) ==
    IF Len(current_prompt) > 0 THEN current_prompt \o <<"\n">> \o context ELSE context
\* f"{current_prompt}\n\n{context}" if current_prompt else context
NewPrompt(current_prompt, context) ==
    IF Len(current_prompt) > 0 THEN current_prompt \o <<"\n\n">> \o context ELSE context

\* add_context once the current prompt has been read (g).
ContextAdded(a, token, host, g) ==
    Persist(a, token,
            _update_system_prompt(NewPrompt(g.ret, a.context[1]), a.variable_name,
                                  g.environ),
            g.net, NewPrompt(g.ret, a.context[1]), host.patch,
            <<Text(InMemory("Context added to system prompt successfully in memory (", a)),
              Text(NoTokenText)>>,
            InMemory("Context added to system prompt successfully in memory (", a),
            "GitHub repository variable updated: ",
            "GitHub repository variable update failed: ",
            InMemory("Context added to system prompt successfully (", a))

AddContextAction(a, env, token, host) ==
    IF ~Truthy(a.context)
    THEN [net |-> <<>>, environ |-> env,
          result |-> Error(<<"Error: context parameter is required for the add_context action">>)]
    ELSE ContextAdded(a, token, host,
                      _get_system_prompt(a.repository, a.variable_name, token, env,
                                         host.get))

ResetAction(a, env, token, host) ==
    Persist(a, token, EnvPop(env, a.variable_name), <<>>, <<>>, host.patch,
            <<Text(InMemory("System prompt reset to default in memory (", a)),
              Text(NoTokenText)>>,
            InMemory("System prompt reset to default in memory (", a),
            "GitHub repository variable reset: ",
            "GitHub repository variable reset failed: ",
            InMemory("System prompt reset to default (", a))

\* The literals the if / elif chain of system_prompt compares action with.
SystemPromptBranches == {"view", "update", "add_context", "reset", "get_github_context"}
SystemPromptRecognises(action) == \E b \in SystemPromptBranches : action = <<b>>

\* The body of the tool: the chain on action, with its else branch.
SystemPromptBody(a, env, token, host) ==
    IF a.action = <<"view">> THEN ViewAction(a, env, token, host)
    ELSE IF a.action = <<"update">> THEN UpdateAction(a, env, token, host)
    ELSE IF a.action = <<"add_context">> THEN AddContextAction(a, env, token, host)
    ELSE IF a.action = <<"reset">> THEN ResetAction(a, env, token, host)
    ELSE IF a.action = <<"get_github_context">>
    THEN [net |-> <<>>, environ |-> env,
          result |-> Success(<<Text(<<"GitHub Event Context:\n\n">>
                                   \o _get_github_event_context(env))>>)]
    ELSE [net |-> <<>>, environ |-> env,
          result |->
            Error(<<"Error: Unknown action '">> \o a.action \o <<"'. Valid actions are ">>
                  \o <<"view", ", ", "update", ", ", "add_context", ", ", "reset", ", ",
                       "get_github_context">>)]

\* The tool: its result, the requests it made and os.environ as it leaves it.
system_prompt(a, env, token, host) == Guarded(SystemPromptBody(a, env, token, host))

\* ------------------------------------------------------------ inputs
\* The arguments the agent framework calls the tool with, and the responses
\* the host gives.

Repository == <<"acme/infra">>
WorkflowId == <<"agent.yml">>

\* The defaults of the signature: every optional parameter None, branch "main",
\* action "create".
DefaultArgs ==
    [repository |-> Repository, workflow_id |-> WorkflowId, task |-> NoneV,
     system_prompt |-> NoneV, context |-> NoneV, branch |-> <<"main">>,
     action |-> <<"create">>, run_id |-> NoneV, model |-> NoneV, provider |-> NoneV,
     max_tokens |-> NoneV, tools |-> NoneV, agent_runner |-> NoneV]

OptStr(v) == {NoneV, Some(v)}
Tasks == {NoneV, Some(<<>>), Some(<<"rotate credentials">>)}
Contexts == {NoneV, Some(<<>>), Some(<<"prod account">>)}
SystemPrompts == {NoneV, Some(<<>>), Some(<<"You are a reviewer">>)}
MaxTokens == {NoneV, Some(4096)}
RunIds == {NoneV, Some(<<>>), Some(<<"12345678">>)}
UnknownActions == {<<>>, <<" ">>, <<"creat">>, <<"create ">>, <<"STATUS">>}

\* Every combination of the optional parameters with a task; without a task
\* (None or empty) the model configuration is left at its defaults.
CreateArgs ==
    {[DefaultArgs EXCEPT !.task = t, !.context = c, !.system_prompt = sp, !.model = m,
                         !.provider = pr, !.max_tokens = mt, !.tools = tl,
                         !.agent_runner = ar] :
        t \in {x \in Tasks : Truthy(x)}, c \in Contexts, sp \in SystemPrompts,
        m \in OptStr(<<"us.anthropic.claude-sonnet-4-20250514-v1:0">>),
        pr \in OptStr(<<"bedrock">>), mt \in MaxTokens,
        tl \in OptStr(<<"file_read,shell">>),
        ar \in OptStr(<<"https://gist.githubusercontent.com/myuser/custom-agent.py">>)}
    \cup {[DefaultArgs EXCEPT !.task = t, !.context = c, !.system_prompt = sp] :
            t \in {x \in Tasks : ~Truthy(x)}, c \in Contexts, sp \in SystemPrompts}

StatusArgs == {[DefaultArgs EXCEPT !.action = <<"status">>, !.run_id = r] : r \in RunIds}

ListArgs == {[DefaultArgs EXCEPT !.action = <<"list">>]}

OtherArgs ==
    {[DefaultArgs EXCEPT !.action = act, !.task = t, !.run_id = r] :
        act \in UnknownActions, t \in {NoneV, Some(<<"rotate credentials">>)},
        r \in {NoneV, Some(<<"12345678">>)}}

\* Calls of gist and of system_prompt: the action, other parameters at their
\* defaults.  Some of the strings are actions of another tool.
GistArgs ==
    {[action |-> act] :
        act \in UnknownActions \cup {<<"status">>, <<"view">>, <<"list">>, <<"Star">>}}
SystemPromptArgs ==
    {[action |-> act] :
        act \in UnknownActions \cup {<<"create">>, <<"list">>, <<"view">>, <<"get">>}}

ConnectionError == Raises(<<"Connection refused">>)
Timeout == Raises(<<"Read timed out. (read timeout=30)">>)
NotFound == Http(404, <<"{\"message\": \"Not Found\"}">>,
                 JsonObject([message |-> <<"Not Found">>]), NoneV)

DispatchResponses ==
    {ConnectionError, Timeout}
    \cup {Http(204, <<>>, NoBody, NoneV),
          Http(200, <<"{}">>, JsonObject([message |-> <<>>]), NoneV),
          NotFound,
          Http(422, <<"{\"message\": \"Unexpected inputs provided\"}">>,
               JsonObject([message |-> <<"Unexpected inputs provided">>]), NoneV)}

\* Bodies of the run endpoint.
RunBody(status, conclusion) ==
    [id |-> 12345678, name |-> <<"Agent">>, status |-> status, conclusion |-> conclusion,
     html_url |-> <<"https://github.com/acme/infra/actions/runs/12345678">>,
     workflow_id |-> <<"agent.yml">>, created_at |-> <<"2025-01-01T00:00:00Z">>,
     updated_at |-> <<"2025-01-01T00:05:00Z">>]
RunBodies ==
    {RunBody(<<"queued">>, <<>>), RunBody(<<"in_progress">>, <<>>),
     RunBody(<<"completed">>, <<"success">>), RunBody(<<"completed">>, <<"failure">>),
     RunBody(<<"completed">>, <<"cancelled">>)}
    \cup {[id |-> 12345678],
          [id |-> 12345678, status |-> <<"completed">>],
          [id |-> 12345678, conclusion |-> <<"success">>, name |-> <<"Agent">>]}

RunResponses ==
    {ConnectionError, Timeout}
    \cup {NotFound,
          Http(200, <<"<html>">>, Malformed, NoneV),
          Http(200, <<"[]">>, JsonArray, NoneV),
          Http(202, <<"{}">>, JsonObject(RunBody(<<"completed">>, <<"success">>)), NoneV)}
    \cup {Http(200, <<"{...}">>, JsonObject(b), NoneV) : b \in RunBodies}

DownloadUrl == <<"https://results.example/logs.zip?sig=abc">>
LogsResponses ==
    {Timeout}
    \cup {Http(302, <<>>, NoBody, Some(DownloadUrl)),
          Http(302, <<>>, NoBody, NoneV),
          Http(302, <<>>, NoBody, Some(<<>>)),
          Http(200, <<"PK">>, NoBody, NoneV),
          Http(301, <<>>, NoBody, Some(DownloadUrl)),
          NotFound}

\* Raw log texts, as characters.
LogBoth ==
    <<"E", "v", "e", "n", "t", ":", " ", "b", "u", "i", "l", "d", " ", "d", "o", "c",
      "s", " ", "\n", "r", "u", "n", ":", " ", "p", "y", "t", "h", "o", "n", " ", "-",
      "c", " ", "a", "g", "e", "n", "t", "\n", "d", "o", "n", "e", "\n">>
LogEventOnly ==
    <<"s", "t", "a", "r", "t", "\n", "E", "v", "e", "n", "t", ":", "h", "e", "l", "l",
      "o", "\r", "\n", "b", "y", "e">>
LogNoEvent ==
    <<"n", "o", "t", "h", "i", "n", "g", " ", "t", "o", " ", "s", "e", "e", "\n">>
LogTwoTasks ==
    <<"E", "v", "e", "n", "t", ":", " ", " ", "a", "\n", "x", " ", "p", "y", "t", "h",
      "o", "n", " ", "-", "c", " ", "1", "\n", "E", "v", "e", "n", "t", ":", " ", "b",
      " ", "\n", "\n", "p", "y", "t", "h", "o", "n", " ", "-", "c", " ", "2", "\n">>
Pad(n) == [i \in 1..n |-> "x"]
LogAtLimit == Pad(LogsLimit)
LogOverLimit == LogBoth \o Pad(LogsLimit + 1 - Len(LogBoth))
Logs == {<<>>, LogBoth, LogEventOnly, LogNoEvent, LogTwoTasks, LogAtLimit, LogOverLimit}

DownloadResponses ==
    {ConnectionError}
    \cup {Http(403, <<"expired">>, NoBody, NoneV), Http(404, <<>>, NoBody, NoneV)}
    \cup {Http(200, l, NoBody, NoneV) : l \in Logs}

ListedRun(id, status, conclusion) ==
    [id |-> id, name |-> <<"Agent">>, status |-> status, conclusion |-> conclusion,
     created_at |-> <<"2025-01-01T00:00:00Z">>, updated_at |-> <<"2025-01-01T00:05:00Z">>,
     html_url |-> <<"https://github.com/acme/infra/actions/runs/1">>]
ListBodies ==
    {[workflow_runs |-> <<>>, total_count |-> 0],
     [total_count |-> 0],
     [workflow_runs |-> <<ListedRun(101, <<"completed">>, <<"success">>)>>,
      total_count |-> 7],
     [workflow_runs |-> <<ListedRun(102, <<"queued">>, <<>>), [id |-> 101]>>]}
ListResponses ==
    {ConnectionError, Timeout}
    \cup {NotFound, Http(200, <<"<html>">>, Malformed, NoneV),
          Http(200, <<"[]">>, JsonArray, NoneV)}
    \cup {Http(200, <<"{...}">>, JsonObject(b), NoneV) : b \in ListBodies}

\* A response that no request of the call asks for.
Unused == Raises(<<"unused">>)
NoHost == [dispatch |-> Unused, run |-> Unused, logs |-> Unused, download |-> Unused,
           list |-> Unused]

Environs == {NoneV, Some(<<>>), Some(<<"ghp_token">>)}

\* -------------------------------------------------------- state machine

Init ==
    /\ environ \in Environs
    /\ hostRuns = <<>>
    /\ pc = "idle"
    /\ tool = NoneV
    /\ args = NoneV
    /\ result = NoneV
    /\ net = <<>>
    /\ earlier = NoneV
    /\ os_environ = EmptyDict
    /\ files = EmptyDict
    /\ argv = <<>>
    /\ agent = NoneV
    /\ stdout = <<>>
    /\ exit_code = NoneV

\* The dispatches of a call that the host accepted.
Accepted(exchanges) ==
    Cardinality({i \in 1..Len(exchanges) :
                    /\ exchanges[i].method = "POST"
                    /\ exchanges[i].endpoint = "dispatches"
                    /\ ~exchanges[i].response.raised
                    /\ exchanges[i].response.status_code = 204})

\* The call returns out: its requests have reached the host, which has
\* enqueued a run for every dispatch it accepted.
Ends(t, a, out) ==
    /\ Len(hostRuns) + Accepted(out.net) <= MaxRuns
    /\ hostRuns' = hostRuns \o [i \in 1..Accepted(out.net) |-> "queued"]
    /\ result' = Some(out.result)
    /\ net' = out.net
    /\ args' = Some(a)
    /\ tool' = Some(t)
    /\ pc' = "returned"
    /\ environ' = (IF t = "create_subagent" THEN environ_get ELSE environ)
    /\ UNCHANGED <<earlier, os_environ, files, runner>>

Returns(a, out) == Ends("create_subagent", a, out)

\* One call of the tool, from entry to return, against the responses in host.
Call(a, host) ==
    /\ pc = "idle"
    /\ Returns(a, create_subagent(a, host))

\* The host answers the requests a call makes, each from the responses its
\* endpoint can give; a request that is not made gets no response.
Reaches(a) == ~TokenMissing(_get_github_token)
Answer(asked, responses) == IF asked THEN responses ELSE {Unused}
Completed(r) ==
    /\ ~r.raised
    /\ MetadataOk(r)
    /\ r.body.kind = "object"
    /\ RunCompleted([status |-> Get(r.body.data, "status")])
Redirects(l) == ~l.raised /\ IsRedirect(l) /\ Truthy(l.Location)

Create ==
    /\ pc = "idle"
    /\ \E a \in CreateArgs :
          \E d \in Answer(Reaches(a) /\ ~TaskMissing(a.task), DispatchResponses) :
             Call(a, [NoHost EXCEPT !.dispatch = d])

Status ==
    /\ pc = "idle"
    /\ \E a \in StatusArgs :
          \E r \in Answer(Reaches(a) /\ ~RunIdMissing(a.run_id), RunResponses) :
             \E l \in Answer(Completed(r), LogsResponses) :
                \E d \in Answer(Redirects(l), DownloadResponses) :
                   Call(a, [NoHost EXCEPT !.run = r, !.logs = l, !.download = d])

List ==
    /\ pc = "idle"
    /\ \E a \in ListArgs :
          \E l \in Answer(Reaches(a), ListResponses) :
             Call(a, [NoHost EXCEPT !.list = l])

Other ==
    /\ pc = "idle"
    /\ \E a \in OtherArgs : Call(a, NoHost)

\* A call of gist with an action that none of its branches recognises.
GistOther ==
    /\ pc = "idle"
    /\ \E a \in GistArgs :
          /\ ~GistRecognises(a.action)
          /\ Ends("gist", a, [net |-> <<>>, result |-> gist(a)])

\* A call of system_prompt with an action that none of its branches recognises.
SystemPromptOther ==
    /\ pc = "idle"
    /\ \E a \in SystemPromptArgs :
          /\ ~SystemPromptRecognises(a.action)
          /\ Ends("system_prompt", a,
                  system_prompt(a, os_environ, _get_github_token_or_empty, NoHost))

\* What an observer can remember of the call that has ended: what it was given
\* (arguments, environment, the host's responses) and what it returned.
Frame ==
    [tool |-> tool[1], args |-> args[1], environ |-> environ,
     responses |-> [i \in 1..Len(net) |-> net[i].response], result |-> result[1]]

\* The calls that are remembered for a later comparison: a list call and a
\* create call with every optional parameter left out, both answered by the
\* host with success.
Probe ==
    /\ tool = Some("create_subagent")
    /\ Len(net) = 1
    /\ ~net[1].response.raised
    /\ \/ args[1].action = <<"list">> /\ net[1].response.status_code = 200
          /\ net[1].response.body.kind = "object"
          /\ "workflow_runs" \in DOMAIN net[1].response.body.data
          /\ Len(net[1].response.body.data.workflow_runs) = 1
       \/ args[1] = [DefaultArgs EXCEPT !.task = Some(<<"rotate credentials">>)]
          /\ net[1].response.status_code = 204

\* The caller takes the result; the call's frame is gone.  The first probe call
\* may be remembered.
Return ==
    /\ pc = "returned"
    /\ pc' = "idle"
    /\ tool' = NoneV
    /\ args' = NoneV
    /\ result' = NoneV
    /\ net' = <<>>
    /\ earlier' \in {earlier} \cup (IF IsNone(earlier) /\ Probe THEN {Some(Frame)} ELSE {})
    /\ UNCHANGED <<environ, hostRuns, os_environ, files, runner>>

\* The process environment is set between calls (the tool is single-threaded).
SetEnv ==
    /\ pc = "idle"
    /\ \E e \in Environs : e # environ /\ environ' = e
    /\ UNCHANGED <<hostRuns, pc, tool, args, result, net, earlier, os_environ, files, runner>>

\* The host runs its workflow runs: queued, in_progress, completed.
HostAdvance ==
    /\ \E i \in 1..Len(hostRuns) :
          /\ hostRuns[i] # "completed"
          /\ hostRuns' = [hostRuns EXCEPT ![i] =
                            IF hostRuns[i] = "queued" THEN "in_progress" ELSE "completed"]
    /\ UNCHANGED <<environ, pc, tool, args, result, net, earlier, os_environ, files, runner>>

Next ==
    \/ Create \/ Status \/ List \/ Other
    \/ GistOther \/ SystemPromptOther
    \/ Return \/ SetEnv \/ HostAdvance

Spec == Init /\ [][Next]_vars

\* ------------------------------------- state machine of system_prompt
\* The agent calls system_prompt again and again; the frame holds the last call.

\* The prompt held by a variable takes at most MaxContexts added contexts.
MaxContexts == 1

VariableNames == {<<"SYSTEM_PROMPT">>, <<"AGENT_BUILDER_SYSTEM_PROMPT">>}
Repositories == {NoneV, Some(<<>>), Some(<<"strands-agents/agent-builder">>)}
\* The arguments that the branch of each action reads; the others stay None.
PromptDefaults ==
    [action |-> <<"view">>, prompt |-> NoneV, context |-> NoneV, repository |-> NoneV,
     variable_name |-> <<"SYSTEM_PROMPT">>]
PromptCalls(action) ==
    {[PromptDefaults EXCEPT !.action = <<action>>, !.repository = r,
                            !.variable_name = v, !.prompt = p, !.context = c] :
        r \in Repositories, v \in VariableNames,
        p \in IF action = "update" THEN SystemPrompts ELSE {NoneV},
        c \in IF action = "add_context" THEN Contexts ELSE {NoneV}}

\* What the repository answers when a variable is read and when it is written.
VariableResponses ==
    {ConnectionError, NotFound,
     Http(200, <<"{...}">>, JsonObject([name |-> <<"SYSTEM_PROMPT">>,
                                         value |-> <<"You are a tool builder">>]), NoneV),
     Http(200, <<"{...}">>, JsonObject([name |-> <<"SYSTEM_PROMPT">>, value |-> <<>>]), NoneV),
     Http(200, <<"{}">>, JsonObject([message |-> <<>>]), NoneV),
     Http(200, <<"<html>">>, Malformed, NoneV),
     Http(200, <<"[]">>, JsonArray, NoneV)}
PatchResponses ==
    {Timeout, NotFound,
     Http(204, <<>>, NoBody, NoneV),
     Http(200, <<"{}">>, JsonObject([message |-> <<>>]), NoneV)}

\* os.environ when the agent starts: the prompt variables and the variables the
\* workflow sets.
PromptEnvirons ==
    {[n \in {"SYSTEM_PROMPT", "AGENT_BUILDER_SYSTEM_PROMPT", "GITHUB_REPOSITORY",
             "GITHUB_EVENT_NAME", "GITHUB_ACTOR"} |->
        IF n = "SYSTEM_PROMPT" THEN sp
        ELSE IF n = "AGENT_BUILDER_SYSTEM_PROMPT" THEN bp
        ELSE IF n = "GITHUB_ACTOR" THEN Some(<<>>)
        ELSE IF gh THEN Some(<<"strands-agents/agent-builder">>) ELSE NoneV] :
        sp \in {NoneV, Some(<<>>), Some(<<"You are a helpful assistant">>)},
        bp \in {NoneV, Some(<<"You are a helpful assistant">>)},
        gh \in BOOLEAN}

InitPrompt ==
    /\ environ \in Environs
    /\ os_environ \in PromptEnvirons
    /\ hostRuns = <<>>
    /\ pc = "idle"
    /\ tool = NoneV
    /\ args = NoneV
    /\ result = NoneV
    /\ net = <<>>
    /\ earlier = NoneV
    /\ files = EmptyDict
    /\ argv = <<>>
    /\ agent = NoneV
    /\ stdout = <<>>
    /\ exit_code = NoneV

\* The number of contexts that were added to the prompts in env.
Separators(text) == Cardinality({i \in 1..Len(text) : text[i] = "\n\n"})
WithinContexts(env) ==
    \A v \in VariableNames : Separators(EnvGet(env, v)) <= MaxContexts

\* The call returns out; os.environ is as the call left it.
PromptEnds(a, out) ==
    /\ WithinContexts(out.environ)
    /\ result' = Some(out.result)
    /\ net' = out.net
    /\ args' = Some(a)
    /\ tool' = Some("system_prompt")
    /\ pc' = "returned"
    /\ os_environ' = out.environ
    /\ UNCHANGED <<environ, hostRuns, earlier, files, runner>>

PromptCall(a, host) ==
    PromptEnds(a, system_prompt(a, os_environ, _get_github_token_or_empty, host))

\* The requests a call makes, which the host answers.
Remote(a) == Truthy(a.repository) /\ Len(_get_github_token_or_empty) > 0
Fetches(a) == Remote(a) /\ Len(EnvGet(os_environ, a.variable_name)) = 0
PromptHost(g, u) == [get |-> g, patch |-> u]

View ==
    \E a \in PromptCalls("view") :
       \E g \in Answer(Fetches(a), VariableResponses) :
          PromptCall(a, PromptHost(g, Unused))

Update ==
    \E a \in PromptCalls("update") :
       \E u \in Answer(Remote(a) /\ Truthy(a.prompt), PatchResponses) :
          PromptCall(a, PromptHost(Unused, u))

AddContext ==
    \E a \in PromptCalls("add_context") :
       \E g \in Answer(Fetches(a) /\ Truthy(a.context), VariableResponses) :
          \E u \in Answer(Remote(a) /\ Truthy(a.context), PatchResponses) :
             PromptCall(a, PromptHost(g, u))

Reset ==
    \E a \in PromptCalls("reset") :
       \E u \in Answer(Remote(a), PatchResponses) :
          PromptCall(a, PromptHost(Unused, u))

GetGithubContext ==
    \E a \in PromptCalls("get_github_context") :
       PromptCall(a, PromptHost(Unused, Unused))

NextPrompt ==
    \/ View \/ Update \/ AddContext \/ Reset \/ GetGithubContext
    \/ SystemPromptOther \/ Return

SpecPrompt == InitPrompt /\ [][NextPrompt]_vars

\* ------------------------------------------------ fetch_github_tool.py
\* A URL is a sequence of atoms: "/", "\n", the scheme "https://", and chunks
\* of characters that hold no slash and no newline.

RawPrefix == <<"https://", "raw.githubusercontent.com", "/">>
BlobPrefix == <<"https://", "github.com", "/">>

\* re.match of the literal text p at the start of s.
StartsWith(s, p) == Len(s) >= Len(p) /\ SubSeq(s, 1, Len(p)) = p

\* [^/]+ from position i: the position after the longest run without a slash.
RECURSIVE NotSlashRun(_, _)
NotSlashRun(s, i) ==
    IF i > Len(s) \/ s[i] = "/" THEN i ELSE NotSlashRun(s, i + 1)

\* .+ from position i: the dot matches every character but the newline.
RECURSIVE DotRun(_, _)
DotRun(s, i) ==
    IF i > Len(s) \/ s[i] = "\n" THEN i ELSE DotRun(s, i + 1)

\* ([^/]+)/ at position i: the group and the position after the slash.
SegmentEnds(s, i, j) ==
    IF j > i /\ j <= Len(s)
    THEN Some([group |-> SubSeq(s, i, j - 1), next |-> j + 1])
    ELSE NoneV
Segment(s, i) == SegmentEnds(s, i, NotSlashRun(s, i))

\* ([^/]+)/([^/]+)/ at position i.
OwnerRepoOf(s, o) ==
    IF IsNone(o) \/ IsNone(Segment(s, o[1].next)) THEN NoneV
    ELSE Some([owner |-> o[1].group, repo |-> Segment(s, o[1].next)[1].group,
               next |-> Segment(s, o[1].next)[1].next])
OwnerRepo(s, i) == OwnerRepoOf(s, Segment(s, i))

\* ([^/]+)/(.+) at position i, after the owner and repo in g.
BranchPathOf(s, g, b) ==
    IF IsNone(b) \/ DotRun(s, b[1].next) = b[1].next THEN NoneV
    ELSE Some([owner |-> g.owner, repo |-> g.repo, branch |-> b[1].group,
               file_path |-> SubSeq(s, b[1].next, DotRun(s, b[1].next) - 1)])
BranchPath(s, g, i) == BranchPathOf(s, g, Segment(s, i))

\* re.match(raw_pattern, github_url)
RawMatch(github_url) ==
    IF ~StartsWith(github_url, RawPrefix)
       \/ IsNone(OwnerRepo(github_url, Len(RawPrefix) + 1)) THEN NoneV
    ELSE BranchPath(github_url, OwnerRepo(github_url, Len(RawPrefix) + 1)[1],
                    OwnerRepo(github_url, Len(RawPrefix) + 1)[1].next)

\* (?:blob|tree)/ at position i
BlobOrTree(s, i) == i + 1 <= Len(s) /\ s[i] \in {"blob", "tree"} /\ s[i + 1] = "/"

\* re.match(blob_pattern, github_url)
BlobMatchOf(github_url, g) ==
    IF IsNone(g) \/ ~BlobOrTree(github_url, g[1].next) THEN NoneV
    ELSE BranchPath(github_url, g[1], g[1].next + 2)
BlobMatch(github_url) ==
    IF ~StartsWith(github_url, BlobPrefix) THEN NoneV
    ELSE BlobMatchOf(github_url, OwnerRepo(github_url, Len(BlobPrefix) + 1))

parse_github_url(github_url) ==
    IF ~IsNone(RawMatch(github_url)) THEN RawMatch(github_url)[1]
    ELSE IF ~IsNone(BlobMatch(github_url)) THEN BlobMatch(github_url)[1]
    ELSE Raise(Raised("ValueError",
                      <<"Unsupported GitHub URL format: ">> \o github_url))

build_raw_url(owner, repo, branch, file_path) ==
    <<"https://", "raw.githubusercontent.com", "/">> \o owner \o <<"/">>
        \o repo \o <<"/">> \o branch \o <<"/">> \o file_path

\* os.path.basename: what follows the last slash.
Slashes(p) == {i \in 1..Len(p) : p[i] = "/"}
LastSlash(p) ==
    IF Slashes(p) = {} THEN 0
    ELSE CHOOSE i \in Slashes(p) : \A j \in Slashes(p) : j <= i
basename(p) == SubSeq(p, LastSlash(p) + 1, Len(p))

\* os.path.splitext(filename)[0]: the name without its last extension; a
\* name that is nothing but an extension (".py") keeps it.
Extensions == {".py", ".txt", ".md"}
splitext_root(filename) ==
    IF Len(filename) > 1 /\ filename[Len(filename)] \in Extensions
    THEN SubSeq(filename, 1, Len(filename) - 1)
    ELSE filename

\* Mutant: the file type is not checked.
EndsWithPy_Any(file_path) == TRUE
\* file_path.endswith(".py")
EndsWithPy(file_path) == Len(file_path) > 0 /\ file_path[Len(file_path)] = ".py"

\* tool_name, taken from the file name when the caller gave none.
ToolName(a, url_info) ==
    IF Truthy(a.tool_name) THEN a.tool_name[1]
    ELSE splitext_root(basename(url_info.file_path))

\* Path(local_dir) and str(local_path / f"{tool_name}.py"): a leading "./" is
\* dropped.
PathOf(local_dir) ==
    IF Len(local_dir) > 1 /\ local_dir[1] = "./" THEN Tail(local_dir) ELSE local_dir
LocalFilePath(local_dir, tool_name) ==
    PathOf(local_dir) \o <<"/">> \o tool_name \o <<".py">>

\* The file system: the paths that exist, each a directory or a file with
\* its text.
Directory == [dir |-> TRUE, text |-> <<>>]
FileOf(text) == [dir |-> FALSE, text |-> text]
Exists(fs, p) == p \in DOMAIN fs

\* The requests.get of the download with the response it got.
DownloadGet(raw_url, resp) ==
    Exchange("GET", "raw", raw_url, EmptyDict, NoneV, TRUE, resp)

\* What a call leaves: its result, its requests, the file system and the agent.
FetchOut(r, n, fs, ag) == [result |-> r, net |-> n, files |-> fs, agent |-> ag]

\* except Exception as e, of the tool
Unexpected(message) == Error(CrossMark \o <<" Unexpected error: ">> \o message)
\* except requests.RequestException as e
DownloadFailed(message) ==
    Error(CrossMark \o <<" Failed to download file from GitHub: ">> \o message)

SuccessMessage(a, tool_name) ==
    <<"Successfully fetched and loaded GitHub tool!", "\n\n", "**Source:** ">>
        \o a.github_url \o <<"\n", "**Tool Name:** ">> \o tool_name
        \o <<"\n", "**Local Path:** ">> \o LocalFilePath(a.local_dir, tool_name)
        \o <<"\n", "**Status:** Ready to use", "\n\n",
             "You can now use the tool with: agent.tool.">> \o tool_name \o <<"(...)">>

\* if agent and hasattr(agent, "tool_registry"): load_tool_from_filepath
Registered(a, tool_name, n, fs, ag, host) ==
    IF ~IsNone(ag) /\ ag[1].has_tool_registry
    THEN IF host.load
         THEN FetchOut(Success(<<Text(SuccessMessage(a, tool_name))>>), n, fs,
                       Some([ag[1] EXCEPT !.tool_registry =
                                @ \cup {[tool_name |-> tool_name,
                                         tool_path |-> LocalFilePath(a.local_dir, tool_name)]}]))
         ELSE FetchOut(Unexpected(<<"Tool file not found">>), n, fs, ag)
    ELSE FetchOut(Error(CrossMark \o <<" Agent instance not available for tool registration">>),
                  n, fs, ag)

\* response.raise_for_status(); with open(local_file_path, "w") ...
Written(a, tool_name, n, fs, ag, host) ==
    IF host.get.raised
    THEN FetchOut(DownloadFailed(host.get.error), n, fs, ag)
    ELSE IF host.get.status_code >= 400
    THEN FetchOut(DownloadFailed(IntToStr(host.get.status_code) \o <<" Client Error">>),
                  n, fs, ag)
    ELSE IF ~host.write
    THEN FetchOut(Unexpected(<<"[Errno 13] Permission denied">>), n, fs, ag)
    ELSE Registered(a, tool_name, n,
                    Put(fs, LocalFilePath(a.local_dir, tool_name), FileOf(host.get.text)),
                    ag, host)

\* local_path.mkdir(parents=True, exist_ok=True); requests.get(raw_url, timeout=30)
Download(a, tool_name, raw_url, fs, ag, host) ==
    IF ~Exists(fs, PathOf(a.local_dir)) /\ ~host.mkdir
    THEN FetchOut(Unexpected(<<"[Errno 13] Permission denied">>), <<>>, fs, ag)
    ELSE Written(a, tool_name, <<DownloadGet(raw_url, host.get)>>,
                 Put(fs, PathOf(a.local_dir), Directory), ag, host)

\* The tool after the URL is parsed.
Parsed(a, url_info, fs, ag, host) ==
    IF ~EndsWithPy(url_info.file_path)
    THEN FetchOut(Error(CrossMark \o <<" File must be a Python file (.py), got: ">>
                           \o url_info.file_path), <<>>, fs, ag)
    ELSE Download(a, ToolName(a, url_info),
                 build_raw_url(url_info.owner, url_info.repo, url_info.branch,
                               url_info.file_path), fs, ag, host)

\* The tool: a, the files fs and the agent ag before the call; host holds what
\* the file system, the network and the tool loader answer.
fetch_github_tool(a, fs, ag, host) ==
    IF IsRaise(parse_github_url(a.github_url))
    THEN FetchOut(Error(CrossMark \o <<" ">> \o parse_github_url(a.github_url).raise.message),
                  <<>>, fs, ag)
    ELSE Parsed(a, parse_github_url(a.github_url), fs, ag, host)

\* ------------------------------------- state machine of fetch_github_tool

ToolText == <<"from strands import tool">>
OwnerRepoPart == <<"strands-agents", "/", "tools", "/">>
GithubUrls ==
    {BlobPrefix \o OwnerRepoPart \o <<"blob", "/", "main", "/", "sleep", ".py">>,
     BlobPrefix \o OwnerRepoPart \o <<"tree", "/", "main", "/", "src", "/", "sleep", ".py">>,
     RawPrefix \o OwnerRepoPart \o <<"main", "/", "calculator", ".py">>,
     RawPrefix \o OwnerRepoPart \o <<"main", "/", "calculator", ".py", "\n", "x">>,
     BlobPrefix \o OwnerRepoPart \o <<"blob", "/", "main", "/", ".py">>,
     \* paths that do not end in .py
     BlobPrefix \o OwnerRepoPart \o <<"blob", "/", "main", "/", "README", ".md">>,
     BlobPrefix \o OwnerRepoPart \o <<"tree", "/", "main", "/", "src">>,
     RawPrefix \o OwnerRepoPart \o <<"main", "/", "sleep", ".py", "?raw=1">>,
     RawPrefix \o OwnerRepoPart \o <<"main", "/", "sleep", ".py", "/">>,
     \* no supported format
     BlobPrefix \o OwnerRepoPart \o <<"commits", "/", "main", "/", "sleep", ".py">>,
     BlobPrefix \o OwnerRepoPart \o <<"blob", "/", "main">>,
     BlobPrefix \o OwnerRepoPart \o <<"blob", "/", "main", "/">>,
     BlobPrefix \o <<"strands-agents", "/", "/", "blob", "/", "main", "/", "sleep", ".py">>,
     RawPrefix \o <<"strands-agents", "/", "tools", "/", "sleep", ".py">>,
     <<"http://", "github.com", "/">> \o OwnerRepoPart
        \o <<"blob", "/", "main", "/", "sleep", ".py">>,
     <<"https://", "gitlab.com", "/">> \o OwnerRepoPart
        \o <<"blob", "/", "main", "/", "sleep", ".py">>,
     <<" ">> \o BlobPrefix \o OwnerRepoPart \o <<"blob", "/", "main", "/", "sleep", ".py">>,
     <<>>}

FetchCalls ==
    [github_url : GithubUrls,
     tool_name : {NoneV, Some(<<>>), Some(<<"weather">>)},
     local_dir : {<<"./", "github_tools">>}]

\* The agent Strands passes to the tool: none, one without a tool registry,
\* one with an empty registry.
FetchAgents ==
    {NoneV,
     Some([has_tool_registry |-> FALSE, tool_registry |-> {}]),
     Some([has_tool_registry |-> TRUE, tool_registry |-> {}])}

RawResponses ==
    {ConnectionError, Http(404, <<"404: Not Found">>, NoBody, NoneV),
     Http(200, ToolText, NoBody, NoneV)}

InitFetch ==
    /\ agent \in FetchAgents
    /\ files = EmptyDict
    /\ environ = NoneV
    /\ os_environ = EmptyDict
    /\ hostRuns = <<>>
    /\ pc = "idle"
    /\ tool = NoneV
    /\ args = NoneV
    /\ result = NoneV
    /\ net = <<>>
    /\ earlier = NoneV
    /\ argv = <<>>
    /\ stdout = <<>>
    /\ exit_code = NoneV

\* The call returns out; the files and the agent are as the call left them.
FetchEnds(a, out) ==
    /\ result' = Some(out.result)
    /\ net' = out.net
    /\ args' = Some(a)
    /\ tool' = Some("fetch_github_tool")
    /\ pc' = "returned"
    /\ files' = out.files
    /\ agent' = out.agent
    /\ UNCHANGED <<environ, hostRuns, earlier, os_environ, argv, stdout, exit_code>>

\* What the call asks of its surroundings.
Accepts(a) ==
    /\ ~IsRaise(parse_github_url(a.github_url))
    /\ EndsWithPy(parse_github_url(a.github_url).file_path)
FetchHost(m, g, w, l) == [mkdir |-> m, get |-> g, write |-> w, load |-> l]
Flags(asked) == IF asked THEN BOOLEAN ELSE {TRUE}

\* One call of the tool, from entry to return.
Fetch ==
    /\ pc = "idle"
    /\ \E a \in FetchCalls :
          \E m \in Flags(Accepts(a) /\ ~Exists(files, PathOf(a.local_dir))) :
             \E g \in Answer(Accepts(a) /\ m, RawResponses) :
                \E w \in Flags(g \in RawResponses /\ ~g.raised /\ g.status_code = 200) :
                   \E l \in Flags(g \in RawResponses /\ ~g.raised
                                  /\ g.status_code = 200 /\ w
                                  /\ ~IsNone(agent) /\ agent[1].has_tool_registry) :
                      FetchEnds(a, fetch_github_tool(a, files, agent, FetchHost(m, g, w, l)))

\* The caller takes the result; the files and the registry stay.
FetchReturn ==
    /\ pc = "returned"
    /\ pc' = "idle"
    /\ tool' = NoneV
    /\ args' = NoneV
    /\ result' = NoneV
    /\ net' = <<>>
    /\ UNCHANGED <<environ, hostRuns, earlier, os_environ, files, runner>>

NextFetch == Fetch \/ FetchReturn

SpecFetch == InitFetch /\ [][NextFetch]_vars

\* ------------------------------------------ agent_runner.py: _filter_tools
\* The value of STRANDS_TOOLS is a sequence of atoms: "[", "]", ",", " ", a
\* run of letters ("shell", "ALL"), a digit, or a JSON string literal with its
\* quotes ("\"shell\"").

\* os.getenv(name)
os_getenv(env, name) == IF name \in DOMAIN env THEN env[name] ELSE NoneV

\* The JSON string literals and the text each one decodes to.
Unquote(q) ==
    IF q = "\"shell\"" THEN "shell"
    ELSE IF q = "\"calculator\"" THEN "calculator"
    ELSE "bogus"
QuotedNames == {"\"shell\"", "\"calculator\"", "\"bogus\""}
JsonDigits == {"1"}

\* The values json.loads gives: str is the value as str() formats it.
JsonStr(text) == [kind |-> "str", str |-> text, items |-> <<>>]
JsonInt(digits) == [kind |-> "int", str |-> digits, items |-> <<>>]
JsonList(items) == [kind |-> "list", str |-> <<"[...]">>, items |-> items]

\* A step of the JSON scanner: the value and the position after it, or no match.
JsonOk(value, next) == [ok |-> TRUE, value |-> value, next |-> next]
JsonFail == [ok |-> FALSE, value |-> JsonStr(<<>>), next |-> 0]

\* JSON whitespace from position i on.
RECURSIVE SkipWs(_, _)
SkipWs(s, i) == IF i <= Len(s) /\ s[i] = " " THEN SkipWs(s, i + 1) ELSE i
\* The digits of a number from position i on.
RECURSIVE DigitsRun(_, _)
DigitsRun(s, i) == IF i <= Len(s) /\ s[i] \in JsonDigits THEN DigitsRun(s, i + 1) ELSE i

\* The JSON value that starts at position i, and the rest of an array whose
\* next element is expected at position i.
RECURSIVE JsonValue(_, _)
RECURSIVE JsonElements(_, _, _)
JsonAfterElement(s, items, v, j) ==
    IF j > Len(s) THEN JsonFail
    ELSE IF s[j] = "," THEN JsonElements(s, j + 1, Append(items, v.value))
    ELSE IF s[j] = "]" THEN JsonOk(JsonList(Append(items, v.value)), j + 1)
    ELSE JsonFail
JsonElement(s, items, v) ==
    IF v.ok THEN JsonAfterElement(s, items, v, SkipWs(s, v.next)) ELSE JsonFail
JsonElements(s, i, items) == JsonElement(s, items, JsonValue(s, SkipWs(s, i)))
JsonArray_(s, i, j) ==
    IF j <= Len(s) /\ s[j] = "]" THEN JsonOk(JsonList(<<>>), j + 1)
    ELSE JsonElements(s, i, <<>>)
JsonValue(s, i) ==
    IF i > Len(s) THEN JsonFail
    ELSE IF s[i] \in QuotedNames THEN JsonOk(JsonStr(<<Unquote(s[i])>>), i + 1)
    ELSE IF s[i] \in JsonDigits
    THEN JsonOk(JsonInt(SubSeq(s, i, DigitsRun(s, i) - 1)), DigitsRun(s, i))
    ELSE IF s[i] = "[" THEN JsonArray_(s, i + 1, SkipWs(s, i + 1))
    ELSE JsonFail

\* json.loads(s): one value with whitespace around it, else JSONDecodeError.
JsonDocument(s, v) ==
    IF v.ok /\ SkipWs(s, v.next) > Len(s) THEN v.value
    ELSE Raise(Raised("JSONDecodeError", JsonDecodeError))
json_loads(s) == JsonDocument(s, JsonValue(s, SkipWs(s, 1)))

\* s.split(",")
Commas(s) == {i \in 1..Len(s) : s[i] = ","}
RECURSIVE Split(_)
FirstComma(s) == CHOOSE i \in Commas(s) : \A j \in Commas(s) : i <= j
Split(s) ==
    IF Commas(s) = {} THEN <<s>>
    ELSE <<SubSeq(s, 1, FirstComma(s) - 1)>>
            \o Split(SubSeq(s, FirstComma(s) + 1, Len(s)))

\* t.strip()
RECURSIVE strip(_)
strip(t) ==
    IF Len(t) > 0 /\ t[1] = " " THEN strip(Tail(t))
    ELSE IF Len(t) > 0 /\ t[Len(t)] = " " THEN strip(SubSeq(t, 1, Len(t) - 1))
    ELSE t

\* [tool.strip() for tool in tool_filter_str.split(",") if tool.strip()]
NotBlank(t) == Len(t) > 0
Stripped(parts) == [i \in 1..Len(parts) |-> strip(parts[i])]
Named(names) == [i \in 1..Len(names) |-> JsonStr(names[i])]
CommaSeparated(tool_filter_str) ==
    Named(SelectSeq(Stripped(Split(tool_filter_str)), NotBlank))

\* tool_filter after the try block: the JSON list, or None.
JsonToolFilter(parsed) ==
    IF ~IsRaise(parsed) /\ parsed.kind = "list" THEN Some(parsed.items) ELSE NoneV

NotValidWarning ==
    <<"Warning: STRANDS_TOOLS env var is not a valid JSON array or comma-separated string. Using all tools.">>
NotFoundWarning(tool_name) ==
    <<"Warning: Tool '">> \o tool_name
        \o <<"' specified in STRANDS_TOOLS env var not found.">>

\* What _filter_tools leaves: its return value (or the exception) and what
\* it printed.
NoError == Raised("", <<>>)
Filtered(tools, printed) ==
    [raised |-> FALSE, tools |-> tools, error |-> NoError, printed |-> printed]
FilterRaised(e, printed) ==
    [raised |-> TRUE, tools |-> EmptyDict, error |-> e, printed |-> printed]

\* Mutant: a name that is not available is dropped without a word.
Missing_Silent(printed, tool_name) == printed
\* print(f"Warning: Tool '{tool_name}' ... not found.")
Missing(printed, tool_name) == Append(printed, NotFoundWarning(tool_name))

\* for tool_name in tool_filter: ... ; a list is unhashable, so the test
\* tool_name in all_tools raises TypeError.
RECURSIVE FilterLoop(_, _, _, _, _)
FilterLoop(all_tools, tool_filter, i, filtered_tools, printed) ==
    IF i > Len(tool_filter) THEN Filtered(filtered_tools, printed)
    ELSE IF tool_filter[i].kind = "list"
    THEN FilterRaised(Raised("TypeError", <<"unhashable type: 'list'">>), printed)
    ELSE IF tool_filter[i].kind = "str" /\ tool_filter[i].str \in DOMAIN all_tools
    THEN FilterLoop(all_tools, tool_filter, i + 1,
                    Put(filtered_tools, tool_filter[i].str, all_tools[tool_filter[i].str]),
                    printed)
    ELSE FilterLoop(all_tools, tool_filter, i + 1, filtered_tools,
                    Missing(printed, tool_filter[i].str))

\* if tool_filter is None: ...
FilterBy(all_tools, tool_filter_str, tool_filter) ==
    IF ~IsNone(tool_filter)
    THEN FilterLoop(all_tools, tool_filter[1], 1, EmptyDict, <<>>)
    ELSE IF Len(CommaSeparated(tool_filter_str)) = 0
    THEN Filtered(all_tools, <<NotValidWarning>>)
    ELSE FilterLoop(all_tools, CommaSeparated(tool_filter_str), 1, EmptyDict, <<>>)

_filter_tools(all_tools, env) ==
    IF ~Truthy(os_getenv(env, "STRANDS_TOOLS"))
       \/ os_getenv(env, "STRANDS_TOOLS")[1] = <<"ALL">>
    THEN Filtered(all_tools, <<>>)
    ELSE FilterBy(all_tools, os_getenv(env, "STRANDS_TOOLS")[1],
                  JsonToolFilter(json_loads(os_getenv(env, "STRANDS_TOOLS")[1])))

\* ------------------------------------------ state machine of _filter_tools

MaxFilterLen == 3

FilterAtoms ==
    {"[", "]", ",", " ", "shell", "bogus", "ALL", "1", "\"shell\"", "\"bogus\""}
RECURSIVE AtomStrings(_)
AtomStrings(n) ==
    IF n = 0 THEN {<<>>}
    ELSE AtomStrings(n - 1)
         \cup {Append(s, c) : s \in {t \in AtomStrings(n - 1) : Len(t) = n - 1},
                              c \in FilterAtoms}

\* Longer values of STRANDS_TOOLS, in both formats.
LongFilters ==
    {<<"[", "\"shell\"", ",", "\"calculator\"", "]">>,
     <<"[", "\"shell\"", ",", " ", "\"bogus\"", "]">>,
     <<"[", "\"bogus\"", ",", "[", "\"shell\"", "]", "]">>,
     <<"[", "\"shell\"", ",", "\"shell\"", "]">>,
     <<"shell", ",", " ", "calculator", ",", "bogus">>,
     <<" ", "shell", " ", ",", ",", "bogus", " ">>,
     <<"shell", " ", "calculator">>,
     <<" ", ",", " ", ",">>}

ToolFilters ==
    {NoneV} \cup {Some(s) : s \in AtomStrings(MaxFilterLen) \cup LongFilters}

\* The tools _get_all_tools found: all, those of a Windows host, none.
ToolObject(name) == <<"<function ">> \o name \o <<">">>
ToolsNamed(names) == [n \in names |-> ToolObject(n)]
AllTools ==
    {ToolsNamed({<<"shell">>, <<"calculator">>, <<"think">>}),
     ToolsNamed({<<"calculator">>, <<"think">>}),
     ToolsNamed({})}

InitTools ==
    /\ os_environ \in {[n \in {"STRANDS_TOOLS"} |-> f] : f \in ToolFilters}
    /\ args \in {Some([all_tools |-> t]) : t \in AllTools}
    /\ environ = NoneV
    /\ hostRuns = <<>>
    /\ pc = "idle"
    /\ tool = NoneV
    /\ result = NoneV
    /\ net = <<>>
    /\ earlier = NoneV
    /\ files = EmptyDict
    /\ argv = <<>>
    /\ agent = NoneV
    /\ stdout = <<>>
    /\ exit_code = NoneV

\* tools = _filter_tools(all_tools)
FilterTools ==
    /\ pc = "idle"
    /\ pc' = "returned"
    /\ tool' = Some("_filter_tools")
    /\ result' = Some(_filter_tools(args[1].all_tools, os_environ))
    /\ stdout' = _filter_tools(args[1].all_tools, os_environ).printed
    /\ UNCHANGED <<environ, hostRuns, args, net, earlier, os_environ, files, argv,
                   agent, exit_code>>

NextTools == FilterTools

SpecTools == InitTools /\ [][NextTools]_vars

\* --------------------------------------- agent_runner.py: run_agent, main

Robot == "<robot>"

\* _get_all_tools(): the tools that could be imported.
_get_all_tools ==
    ToolsNamed({<<"shell">>, <<"retrieve">>, <<"store_in_kb">>, <<"handoff_to_user">>})
get_tools(env) == _filter_tools(_get_all_tools, env)

\* os.getenv(name, default)
os_getenv_or(env, name, default) ==
    IF IsNone(os_getenv(env, name)) THEN default ELSE os_getenv(env, name)[1]
DefaultSystemPrompt ==
    <<"You are an autonomous GitHub agent powered by Strands Agents SDK.">>

\* if s3_bucket and session_id
UsesSession(env) ==
    Truthy(os_getenv(env, "S3_SESSION_BUCKET")) /\ Truthy(os_getenv(env, "SESSION_ID"))
\* if (session_id and not s3_bucket) or (s3_bucket and not session_id)
Inconsistent(env) ==
    \/ Truthy(os_getenv(env, "SESSION_ID")) /\ ~Truthy(os_getenv(env, "S3_SESSION_BUCKET"))
    \/ Truthy(os_getenv(env, "S3_SESSION_BUCKET")) /\ ~Truthy(os_getenv(env, "SESSION_ID"))
\* knowledge_base_id, as a condition
KnowledgeBase(env) == Truthy(os_getenv(env, "STRANDS_KNOWLEDGE_BASE_ID"))

\* One item of a message's content: a dict with one key (kind).
ToolUse(name, toolUseId) ==
    [kind |-> "toolUse", name |-> name, toolUseId |-> toolUseId, text |-> <<>>,
     status |-> ""]
TextItem(text) ==
    [kind |-> "text", name |-> <<>>, toolUseId |-> <<>>, text |-> text, status |-> ""]
ToolResult(toolUseId, text, status) ==
    [kind |-> "toolResult", name |-> <<>>, toolUseId |-> toolUseId, text |-> text,
     status |-> status]
Message(role, content) == [role |-> role, content |-> content]

\* Agent(model=..., system_prompt=..., tools=..., session_manager=...): the
\* agent holds the messages of its session, the calls made of it, and the
\* tools called through agent.tool.
Agent(tools, prompt, session_manager, messages) ==
    [messages |-> messages, calls |-> <<>>, tool_calls |-> <<>>,
     tool_names |-> DOMAIN tools, system_prompt |-> prompt,
     session_manager |-> session_manager]

\* What a part of run_agent leaves: the exception that ended it (if any), what
\* it printed, and the agent.
Ran(printed, ag) ==
    [raised |-> FALSE, error |-> NoError, printed |-> printed, agent |-> ag]
RunFailed(e, printed, ag) ==
    [raised |-> TRUE, error |-> e, printed |-> printed, agent |-> ag]

\* agent = Agent(...), after the check of the session configuration
Constructed(env, host, tools, printed) ==
    IF Inconsistent(env)
    THEN RunFailed(Raised("ValueError",
            <<"Both SESSION_ID and S3_SESSION_BUCKET must be set if using session manager.">>),
            printed, NoneV)
    ELSE IF ~host.agent
    THEN RunFailed(Raised("RuntimeError", <<"Agent could not be created">>),
                   printed, NoneV)
    ELSE Ran(printed,
             Some(Agent(tools,
                        os_getenv_or(env, "INPUT_SYSTEM_PROMPT", DefaultSystemPrompt),
                        UsesSession(env),
                        IF UsesSession(env) THEN host.messages ELSE <<>>)))

\* session_manager = S3SessionManager(...)
SessionManaged(env, host, tools, printed) ==
    IF ~UsesSession(env) THEN Constructed(env, host, tools, printed)
    ELSE IF ~host.session
    THEN RunFailed(Raised("RuntimeError", <<"Unable to locate credentials">>),
                   Append(printed, <<Robot, " Using session manager with session ID: ">>
                                      \o os_getenv(env, "SESSION_ID")[1]),
                   NoneV)
    ELSE Constructed(env, host, tools,
                     Append(printed, <<Robot, " Using session manager with session ID: ">>
                                        \o os_getenv(env, "SESSION_ID")[1]))

\* tools = get_tools(); model = create_model()
ModelCreated(env, host, got) ==
    IF got.raised THEN RunFailed(got.error, got.printed, NoneV)
    ELSE IF ~host.model
    THEN RunFailed(Raised("ValueError", <<"Unknown model provider">>),
                   got.printed, NoneV)
    ELSE SessionManaged(env, host, got.tools, got.printed)

\* run_agent from its start to the agent's construction.
RunAgentSetup(env, host) == ModelCreated(env, host, get_tools(env))

\* latest_message = agent.messages[-1] if len(agent.messages) > 0 else None
LatestMessage(messages) ==
    IF Len(messages) > 0 THEN Some(messages[Len(messages)]) ELSE NoneV

\* Mutant: the number of content items is not tested.
IsHandoff_FirstItem(latest_message) ==
    /\ ~IsNone(latest_message)
    /\ Len(latest_message[1].content) >= 1
    /\ latest_message[1].content[1].kind = "toolUse"
    /\ latest_message[1].content[1].name = <<"handoff_to_user">>
\* The test of lines 277-279.
IsHandoff(latest_message) ==
    /\ ~IsNone(latest_message)
    /\ Len(latest_message[1].content) = 1
    /\ latest_message[1].content[1].kind = "toolUse"
    /\ latest_message[1].content[1].name = <<"handoff_to_user">>

\* agent._append_message({"role": "user", "content": [{"toolResult": ...}]})
HandoffResult(latest_message, query) ==
    Message("user",
            <<ToolResult(latest_message[1].content[1].toolUseId, query, "success")>>)

\* if "store_in_kb" in agent.tool_names and knowledge_base_id: ...; print(result)
StoredInKb(query, env, host, printed, ag) ==
    IF <<"store_in_kb">> \in ag.tool_names /\ KnowledgeBase(env)
    THEN Ran(printed
               \o (IF host.store THEN <<>>
                   ELSE <<<<"Warning: Could not store in knowledge base: unavailable">>>>)
               \o <<<<"\n\n", "Agent Result ", Robot>>>>,
             Some([ag EXCEPT !.tool_calls = Append(@, "store_in_kb")]))
    ELSE Ran(Append(printed, <<"\n\n", "Agent Result ", Robot>>), Some(ag))

\* result = agent() or result = agent(query): the call is made, and fails or
\* returns.
Called(query, env, host, printed, ag, prompt) ==
    IF ~host.invoke
    THEN RunFailed(Raised("RuntimeError", <<"Model invocation failed">>), printed,
                   Some([ag EXCEPT !.calls = Append(@, prompt)]))
    ELSE StoredInKb(query, env, host, printed, [ag EXCEPT !.calls = Append(@, prompt)])

\* Lines 274-292.
Resumed(query, env, host, printed, ag) ==
    IF IsHandoff(LatestMessage(ag.messages))
    THEN Called(query, env, host, Append(printed, <<"Resuming agent after handoff...">>),
                [ag EXCEPT !.messages =
                    Append(@, HandoffResult(LatestMessage(ag.messages), query))],
                NoneV)
    ELSE Called(query, env, host, Append(printed, <<"Processing user query...">>),
                ag, Some(query))

\* run_agent from the knowledge base lookup to its last line.
RunAgentInvoke(query, env, host, ag) ==
    IF <<"retrieve">> \in ag.tool_names /\ KnowledgeBase(env)
    THEN Resumed(query, env, host,
                 IF host.retrieve THEN <<>>
                 ELSE <<<<"Warning: Could not retrieve from knowledge base: unavailable">>>>,
                 [ag EXCEPT !.tool_calls = Append(@, "retrieve")])
    ELSE Resumed(query, env, host, <<>>, ag)

\* " ".join(sys.argv[1:])
RECURSIVE JoinArgs(_)
JoinArgs(a) ==
    IF Len(a) = 0 THEN <<>>
    ELSE IF Len(a) = 1 THEN a[1]
    ELSE a[1] \o <<" ">> \o JoinArgs(Tail(a))

\* main before run_agent: the task, or the ValueError.
TaskOf(av) ==
    IF Len(av) < 2
    THEN Raise(Raised("ValueError", <<"Task argument is required">>))
    ELSE IF Len(strip(JoinArgs(Tail(av)))) = 0
    THEN Raise(Raised("ValueError", <<"Task cannot be empty">>))
    ELSE [task |-> JoinArgs(Tail(av))]

\* Mutant: run_agent has no except clause.
RunAgentCatches_Nothing(e) == FALSE
\* except Exception as e, of run_agent
RunAgentCatches(e) == ExceptException(e)

\* ------------------------------------------ state machine of agent_runner

Programme == <<"agent_runner.py">>
Argvs ==
    {<<Programme>>, <<Programme, <<>>>>, <<Programme, <<" ">>, <<>>>>,
     <<Programme, <<"fix the build">>>>, <<Programme, <<"fix">>, <<"the build">>>>,
     <<Programme, <<" ">>, <<"fix">>>>}

RunnerEnvirons ==
    {[n \in {"BYPASS_TOOL_CONSENT", "STRANDS_TOOL_CONSOLE_MODE", "STRANDS_TOOLS",
             "SESSION_ID", "S3_SESSION_BUCKET", "STRANDS_KNOWLEDGE_BASE_ID",
             "INPUT_SYSTEM_PROMPT"} |->
        IF n = "BYPASS_TOOL_CONSENT" THEN Some(<<"true">>)
        ELSE IF n = "STRANDS_TOOL_CONSOLE_MODE" THEN Some(<<"enabled">>)
        ELSE IF n = "STRANDS_TOOLS" THEN st
        ELSE IF n = "SESSION_ID" THEN sid
        ELSE IF n = "S3_SESSION_BUCKET" THEN bucket
        ELSE IF n = "STRANDS_KNOWLEDGE_BASE_ID" THEN kb
        ELSE NoneV] :
        st \in {NoneV, Some(<<"shell", ",", "retrieve", ",", "bogus">>),
                Some(<<"[", "[", "\"shell\"", "]", "]">>)},
        sid \in {NoneV, Some(<<>>), Some(<<"session-1">>)},
        bucket \in {NoneV, Some(<<"agent-sessions">>)},
        kb \in {NoneV, Some(<<"KB1">>)}}

\* The messages of the stored session.
Handoff(toolUseId) ==
    Message("assistant", <<ToolUse(<<"handoff_to_user">>, toolUseId)>>)
Asked == Message("user", <<TextItem(<<"fix the build">>)>>)
StoredSessions ==
    {<<>>,
     <<Asked, Handoff(<<"tooluse_1">>)>>,
     <<Asked, Handoff(<<"tooluse_1">>),
       Message("user", <<ToolResult(<<"tooluse_1">>, <<"go on">>, "success")>>),
       Handoff(<<"tooluse_2">>)>>,
     <<Asked, Message("assistant", <<ToolUse(<<"shell">>, <<"tooluse_3">>)>>)>>,
     <<Asked, Message("assistant", <<ToolUse(<<"handoff_to_user">>, <<"tooluse_4">>),
                                     TextItem(<<"Waiting for you">>)>>)>>,
     <<Asked, Message("assistant", <<TextItem(<<"Waiting for you">>),
                                     ToolUse(<<"handoff_to_user">>, <<"tooluse_5">>)>>)>>,
     <<Asked, Message("assistant", <<TextItem(<<"Done">>)>>)>>,
     <<Asked, Message("assistant", <<>>)>>,
     <<Handoff(<<"tooluse_1">>), Asked>>}

InitRunner ==
    /\ argv \in Argvs
    /\ os_environ \in RunnerEnvirons
    /\ pc = "main"
    /\ agent = NoneV
    /\ stdout = <<>>
    /\ exit_code = NoneV
    /\ environ = NoneV
    /\ hostRuns = <<>>
    /\ tool = NoneV
    /\ args = NoneV
    /\ result = NoneV
    /\ net = <<>>
    /\ earlier = NoneV
    /\ files = EmptyDict

\* main up to the call of run_agent; a ValueError goes to main's except clause.
Main ==
    /\ pc = "main"
    /\ IF IsRaise(TaskOf(argv))
       THEN /\ stdout' = Append(stdout, <<"Fatal error: ">> \o TaskOf(argv).raise.message)
            /\ exit_code' = Some(1)
            /\ pc' = "exited"
            /\ args' = args
       ELSE /\ stdout' = Append(stdout, <<Robot, " Running agent with task: ">>
                                           \o TaskOf(argv).task)
            /\ exit_code' = exit_code
            /\ pc' = "run_agent"
            /\ args' = Some([query |-> TaskOf(argv).task])
    /\ UNCHANGED <<environ, hostRuns, tool, result, net, earlier, os_environ, files,
                   argv, agent>>

\* A part of run_agent has run and left out.  An exception goes to run_agent's
\* except clause, which prints it and lets run_agent return; one it does not
\* catch goes on to main's, which prints it and exits with code 1.
RunnerStep(out, next) ==
    /\ agent' = out.agent
    /\ result' = (IF out.raised THEN Some([raised |-> TRUE, error |-> out.error])
                  ELSE result)
    /\ IF ~out.raised
       THEN /\ stdout' = stdout \o out.printed
            /\ pc' = next
            /\ exit_code' = exit_code
       ELSE IF RunAgentCatches(out.error)
       THEN /\ stdout' = stdout \o out.printed
                            \o <<CrossMark \o <<" Agent execution failed: ">>
                                    \o out.error.message>>
            /\ pc' = "finished"
            /\ exit_code' = exit_code
       ELSE /\ stdout' = stdout \o out.printed
                            \o <<<<"Fatal error: ">> \o out.error.message>>
            /\ pc' = "exited"
            /\ exit_code' = Some(1)
    /\ UNCHANGED <<environ, hostRuns, tool, args, net, earlier, os_environ, files, argv>>

SetupHost(m, s, a, msgs) == [model |-> m, session |-> s, agent |-> a, messages |-> msgs]
InvokeHost(r, i, s) == [retrieve |-> r, invoke |-> i, store |-> s]
Loaded(asked) == IF asked THEN StoredSessions ELSE {<<>>}

\* run_agent: tools, model, session manager, agent.
Setup ==
    /\ pc = "run_agent"
    /\ \E m \in Flags(~get_tools(os_environ).raised) :
          \E s \in Flags(~get_tools(os_environ).raised /\ m /\ UsesSession(os_environ)) :
             \E a \in Flags(~get_tools(os_environ).raised /\ m /\ s
                            /\ ~Inconsistent(os_environ)) :
                \E msgs \in Loaded(~get_tools(os_environ).raised /\ m /\ s /\ a
                                   /\ UsesSession(os_environ)) :
                   RunnerStep(RunAgentSetup(os_environ, SetupHost(m, s, a, msgs)), "agent")

\* run_agent: knowledge base, resumption, the agent's run, the result.
Invoke ==
    /\ pc = "agent"
    /\ \E r \in Flags(<<"retrieve">> \in agent[1].tool_names /\ KnowledgeBase(os_environ)) :
          \E i \in BOOLEAN :
             \E s \in Flags(i /\ <<"store_in_kb">> \in agent[1].tool_names
                            /\ KnowledgeBase(os_environ)) :
                RunnerStep(RunAgentInvoke(args[1].query, os_environ, InvokeHost(r, i, s),
                                          agent[1]),
                           "finished")

\* run_agent has returned to main, main returns, and the process ends.
Exit ==
    /\ pc = "finished"
    /\ pc' = "exited"
    /\ exit_code' = Some(0)
    /\ UNCHANGED <<environ, hostRuns, tool, args, result, net, earlier, os_environ,
                   files, argv, agent, stdout>>

NextRunner == Main \/ Setup \/ Invoke \/ Exit

SpecRunner == InitRunner /\ [][NextRunner]_vars

\* ------------------------------------------------------------ properties
\* Stated over the call that has just returned: its arguments, its result and
\* the HTTP exchanges it made.

\* A call of create_subagent has ended.
Returned == pc = "returned" /\ tool = Some("create_subagent")
CallIs(action) == Returned /\ args[1].action = <<action>>
NoToken == IsNone(environ) \/ environ = Some(<<>>)
Posts == {i \in 1..Len(net) : net[i].method = "POST"}
Requests(endpoint) == {i \in 1..Len(net) : net[i].endpoint = endpoint}
\* The first atom of every content entry: the label the entry starts with.
Labels == [i \in 1..Len(result[1].content) |-> result[1].content[i].text[1]]
MetadataLabels ==
    <<"Sub-agent run status: ", "Name: ", "Created: ", "Updated: ", "Run URL: ">>
LogLabels == {"Agent Tasks:", "Event: ", "Run Logs (excerpt):\n"}
TokenError ==
    <<Text(<<"Error: GitHub token not available. Cannot create or manage sub-agents.">>)>>

\* The run-metadata request of a status call and how the host answered it.
MetadataAsked == CallIs("status") /\ Len(net) >= 1 /\ net[1].endpoint = "run"
MetadataFailed ==
    \/ net[1].response.raised
    \/ net[1].response.status_code # 200
    \/ net[1].response.body.kind # "object"
MetadataSucceeded == MetadataAsked /\ ~MetadataFailed
ReportedStatus == Get(net[1].response.body.data, "status")
\* The log fetch of a status call: the logs endpoint answers 302 with a Location
\* and the download answers 200; anything else is a failed fetch.
LogsFetched ==
    /\ Len(net) = 3
    /\ ~net[2].response.raised
    /\ net[2].response.status_code = 302
    /\ Truthy(net[2].response.Location)
    /\ ~net[3].response.raised
    /\ net[3].response.status_code = 200
LogFetchFailed ==
    /\ MetadataSucceeded
    /\ ReportedStatus = Some(<<"completed">>)
    /\ ~LogsFetched

\* C1: with GITHUB_TOKEN unset or empty, every call (create, status, list or any
\* other action) returns status "error" with the single text "GitHub token not
\* available" and makes no HTTP request.
C1_NoTokenNoNetwork ==
    (Returned /\ NoToken) =>
        /\ result[1].status = "error"
        /\ result[1].content = TokenError
        /\ net = <<>>

\* A create call with a task, which would dispatch, returned with no token set.
C1_Witness ==
    /\ CallIs("create")
    /\ Truthy(args[1].task)
    /\ IsNone(environ)
    /\ result[1].status = "error"

\* C2: a create call sends at most one dispatch POST whatever the response, a
\* failed dispatch is returned as an error right after that one request, and no
\* call of any action asks the same endpoint twice.
C2_NoRetry ==
    Returned =>
        /\ Cardinality(Posts) <= 1
        /\ \A i, j \in 1..Len(net) : net[i].endpoint = net[j].endpoint => i = j
        /\ (Posts # {} /\ (net[1].response.raised \/ net[1].response.status_code # 204))
              => (Len(net) = 1 /\ result[1].status = "error")

\* A create call whose dispatch timed out returned an error after one POST.
C2_Witness ==
    /\ CallIs("create")
    /\ Len(net) = 1
    /\ net[1].method = "POST"
    /\ net[1].response = Timeout
    /\ result[1].status = "error"

\* C3: a create call whose task is None or empty returns status "error" and
\* makes no HTTP request.
C3_NoTaskNoNetwork ==
    (CallIs("create") /\ ~Truthy(args[1].task)) =>
        (result[1].status = "error" /\ net = <<>>)

\* A create call with an empty task returned while a token was set.
C3_Witness ==
    /\ CallIs("create")
    /\ args[1].task = Some(<<>>)
    /\ ~NoToken
    /\ result[1].status = "error"

\* C4: a status call whose run_id is None or empty returns status "error" and
\* makes no HTTP request.
C4_NoRunIdNoNetwork ==
    (CallIs("status") /\ ~Truthy(args[1].run_id)) =>
        (result[1].status = "error" /\ net = <<>>)

\* A status call with an empty run_id returned while a token was set.
C4_Witness ==
    /\ CallIs("status")
    /\ args[1].run_id = Some(<<>>)
    /\ ~NoToken
    /\ result[1].status = "error"

OptionalInputs == {"system_prompt", "model", "provider", "max_tokens", "tools", "agent_runner"}
\* A valid create call: a token is set and the task is not empty.
ValidCreate == CallIs("create") /\ ~NoToken /\ Truthy(args[1].task)
DispatchedInputs == net[1].payload[1].inputs

\* C5: every valid create call dispatches an inputs mapping whose keys are task
\* and exactly those optional parameters that are not None.
C5_InputKeys ==
    ValidCreate =>
        /\ Len(net) = 1
        /\ DOMAIN DispatchedInputs =
              {"task"} \cup {k \in OptionalInputs : ~IsNone(args[1][k])}

\* A valid create call with model given, system_prompt given as the empty
\* string and tools, provider left out has dispatched.
C5_Witness ==
    /\ ValidCreate
    /\ ~IsNone(args[1].model)
    /\ args[1].system_prompt = Some(<<>>)
    /\ IsNone(args[1].tools)
    /\ IsNone(args[1].provider)
    /\ Len(net) = 1

\* C6: the task input of every dispatched create call is "Task: {task}" when
\* context is None and "Task: {task}\nContext: {context}" otherwise.
C6_TaskInput ==
    ValidCreate =>
        /\ Len(net) = 1
        /\ DispatchedInputs["task"] =
              IF IsNone(args[1].context)
              THEN <<"Task: ">> \o args[1].task[1]
              ELSE <<"Task: ">> \o args[1].task[1] \o <<"\nContext: ">>
                   \o args[1].context[1]

\* A create call with a context has dispatched a two-line task input.
C6_Witness ==
    /\ ValidCreate
    /\ Len(net) = 1
    /\ args[1].context = Some(<<"prod account">>)
    /\ Len(DispatchedInputs["task"]) = 4

\* C7: when the run metadata is fetched and its status is not "completed"
\* (queued, in_progress, missing), the status call makes no other request and
\* returns success with the five metadata entries only.
C7_NoLogsUnlessCompleted ==
    (MetadataSucceeded /\ ReportedStatus # Some(<<"completed">>)) =>
        /\ Len(net) = 1
        /\ Requests("logs") = {} /\ Requests("download") = {}
        /\ result[1].status = "success"
        /\ Labels = MetadataLabels

\* A status call returned for a run the host reports as in_progress.
C7_Witness ==
    /\ MetadataSucceeded
    /\ ReportedStatus = Some(<<"in_progress">>)
    /\ result[1].status = "success"

\* C8: when the run is completed and the log fetch fails (logs endpoint not 302,
\* no Location, download not 200, network error), the status call returns
\* success with the five metadata entries and no Agent Tasks, Event or Run Logs
\* entry.
C8_LogFailureKeepsMetadata ==
    LogFetchFailed =>
        /\ result[1].status = "success"
        /\ Labels = MetadataLabels
        /\ \A i \in 1..Len(Labels) : Labels[i] \notin LogLabels

\* A status call returned for a completed run whose logs endpoint answered 302
\* without a Location header.
C8_Witness ==
    /\ LogFetchFailed
    /\ Len(net) = 2
    /\ net[2].response.status_code = 302
    /\ IsNone(net[2].response.Location)

\* C9 as the specification states it: a status call fails when the metadata
\* fetch succeeds but the log fetch fails.
C9_Original == LogFetchFailed => result[1].status = "error"

\* C9, amended: a status call whose metadata fetch succeeds never fails, also
\* when the log fetch that follows fails.
C9_MetadataSuccessIsSuccess == MetadataSucceeded => result[1].status = "success"

\* A status call returned for a completed run whose log download was refused.
C9_Witness ==
    /\ LogFetchFailed
    /\ Len(net) = 3
    /\ net[3].response.status_code = 403
    /\ result[1].status = "success"

\* C10: when the run-metadata fetch fails (network error, status other than 200,
\* body that is no JSON object), the status call returns status "error" and
\* asks neither the logs endpoint nor the download.
C10_MetadataFailure ==
    (MetadataAsked /\ MetadataFailed) =>
        /\ result[1].status = "error"
        /\ Len(net) = 1
        /\ Requests("logs") = {}

\* A status call returned after the host answered the metadata request with
\* 200 and a body that is not JSON.
C10_Witness ==
    /\ MetadataAsked
    /\ ~net[1].response.raised
    /\ net[1].response.status_code = 200
    /\ net[1].response.body.kind = "malformed"
    /\ result[1].status = "error"

Content == result[1].content
\* A call of create_subagent ends: the step from idle to returned.
CallStep == pc = "idle" /\ pc' = "returned" /\ tool' = Some("create_subagent")

\* The external call of exchange x failed: no answer (network error, timeout), a
\* status outside 2xx (the logs endpoint: other than the 302 it answers with),
\* a redirect without a Location, a body that is no JSON object.
Failed(x) ==
    \/ x.response.raised
    \/ /\ x.endpoint # "logs"
       /\ (x.response.status_code < 200 \/ x.response.status_code >= 300)
    \/ /\ x.endpoint = "logs"
       /\ (x.response.status_code # 302 \/ ~Truthy(x.response.Location))
    \/ /\ x.endpoint \in {"run", "runs"}
       /\ x.response.body.kind # "object"
FailureHeads ==
    {"Failed to create sub-agent: ", "Failed to check sub-agent status: ",
     "Failed to list sub-agent runs: "}

\* C11: every call of create_subagent ends by returning a result value, never
\* by an exception; when the first external call of create, status or list
\* fails, the value is an error result with the one failure message, and when a
\* later call (logs, download) fails, the value is still a result.
C11_NoExceptionPropagates ==
    Returned =>
        /\ ~IsRaise(result[1])
        /\ DOMAIN result[1] = {"status", "content"}
        /\ (Len(net) >= 1 /\ Failed(net[1])) =>
              /\ result[1].status = "error"
              /\ Len(Content) = 1
              /\ Content[1].text[1] \in FailureHeads
        /\ (Len(net) >= 2 /\ \E i \in 2..Len(net) : Failed(net[i])) =>
              result[1].status = "success"

\* A status call returned an error after the host answered the metadata request
\* with 200 and a JSON array, on which data.get raises AttributeError.
C11_Witness ==
    /\ CallIs("status")
    /\ Len(net) = 1
    /\ ~net[1].response.raised
    /\ net[1].response.status_code = 200
    /\ net[1].response.body.kind = "array"
    /\ ~IsRaise(result[1])
    /\ result[1].status = "error"

SummaryHeads ==
    {"Sub-agent created successfully: ", "Sub-agent run status: ",
     "Recent sub-agent runs (showing ", "No recent sub-agent runs found"}

\* C12: every result of create_subagent has exactly the keys status and
\* content, status is "success" or "error", content is a non-empty sequence of
\* entries with the one key text; the first entry of a success is the summary
\* of the action and no later entry is one, and an error has the message as its
\* only entry.
C12_ResultShape ==
    Returned =>
        /\ DOMAIN result[1] = {"status", "content"}
        /\ result[1].status \in {"success", "error"}
        /\ Len(Content) >= 1
        /\ \A i \in 1..Len(Content) :
              /\ DOMAIN Content[i] = {"text"}
              /\ Len(Content[i].text) >= 1
        /\ result[1].status = "success" =>
              /\ Content[1].text[1] \in SummaryHeads
              /\ \A i \in 2..Len(Content) : Content[i].text[1] \notin SummaryHeads
        /\ result[1].status = "error" =>
              /\ Len(Content) = 1
              /\ Content[1].text[1] \notin SummaryHeads

\* A status call returned a success whose content has the metadata entries and
\* entries for the logs after the summary.
C12_Witness ==
    /\ CallIs("status")
    /\ result[1].status = "success"
    /\ Len(Content) >= 8
    /\ Content[1].text[1] = "Sub-agent run status: "

\* A create call that was dispatched and that the host answered.
CreateAnswered == ValidCreate /\ Len(net) = 1 /\ ~net[1].response.raised
CreateSucceeded == CreateAnswered /\ result[1].status = "success"
\* str() of the value of a parameter that was supplied.
ValueText(k) ==
    IF k = "max_tokens" THEN IntToStr(args[1][k][1]) ELSE args[1][k][1]
\* Some entry of the content is a label followed by the value of parameter k.
Echoes(k) ==
    \E i \in 1..Len(Content) :
        /\ Len(Content[i].text) = 1 + Len(ValueText(k))
        /\ Len(ValueText(k)) >= 1
        /\ SubSeq(Content[i].text, 2, Len(Content[i].text)) = ValueText(k)
EchoedParams == <<"model", "provider", "max_tokens", "tools", "agent_runner">>
EchoLabel ==
    [k \in {"model", "provider", "max_tokens", "tools", "agent_runner"} |->
        IF k = "model" THEN "Model: "
        ELSE IF k = "provider" THEN "Provider: "
        ELSE IF k = "max_tokens" THEN "Max Tokens: "
        ELSE IF k = "tools" THEN "Tools: "
        ELSE "Agent Runner: "]
IsSupplied(k) == ~IsNone(args[1][k])
SuppliedEchoed == SelectSeq(EchoedParams, IsSupplied)
\* create succeeds exactly on 204 and reports anything else with code and body.
CreateOutcome ==
    /\ result[1].status = "success" <=> net[1].response.status_code = 204
    /\ net[1].response.status_code # 204 =>
          /\ result[1].status = "error"
          /\ Content =
                <<Text(<<"Failed to create sub-agent: ", "Failed to dispatch workflow: ">>
                       \o IntToStr(net[1].response.status_code) \o <<" - ">>
                       \o net[1].response.text)>>
\* The first entries of a success: summary, task, repository, workflow, branch.
CreateEchoHead ==
    /\ Len(Content) >= 6
    /\ Content[1].text[1] = "Sub-agent created successfully: "
    /\ Content[2].text = <<"Task delegated: ">> \o args[1].task[1]
    /\ Content[3].text = <<"Repository: ">> \o args[1].repository
    /\ Content[4].text = <<"Workflow: ">> \o args[1].workflow_id
    /\ Content[5].text = <<"Branch: ">> \o args[1].branch

\* C13 as the specification states it: a success echoes, next to task,
\* repository, workflow and branch, exactly the optional parameters that were
\* supplied, system_prompt among them.
C13_Original ==
    CreateAnswered =>
        /\ CreateOutcome
        /\ result[1].status = "success" =>
              /\ CreateEchoHead
              /\ Len(Content) = 6 + Cardinality({k \in OptionalInputs : IsSupplied(k)})
              /\ \A k \in OptionalInputs :
                    (IsSupplied(k) /\ Len(ValueText(k)) >= 1) => Echoes(k)

\* C13, amended: create returns success exactly when the host answers the
\* dispatch with 204; any other answer gives an error whose text carries the
\* status code and the body; a success echoes task, repository, workflow and
\* branch and then exactly those of model, provider, max_tokens, tools and
\* agent_runner that were supplied, in that order, followed by the hint.
C13_CreateOutcomeAndEcho ==
    CreateAnswered =>
        /\ CreateOutcome
        /\ result[1].status = "success" =>
              /\ CreateEchoHead
              /\ Len(Content) = 6 + Len(SuppliedEchoed)
              /\ \A j \in 1..Len(SuppliedEchoed) :
                    Content[5 + j].text =
                        <<EchoLabel[SuppliedEchoed[j]]>> \o ValueText(SuppliedEchoed[j])
              /\ Content[Len(Content)].text[1] =
                    "To check status, use the 'list' action to find the run ID, then use 'status' action."

\* A create call with system_prompt and model supplied and tools left out was
\* answered 204 and returned success.
C13_Witness ==
    /\ CreateSucceeded
    /\ net[1].response.status_code = 204
    /\ Truthy(args[1].system_prompt)
    /\ Truthy(args[1].model)
    /\ IsNone(args[1].tools)

\* The actions of each tool: the literals its if / elif chain recognises.
ToolActions ==
    [t \in {"create_subagent", "gist", "system_prompt"} |->
        IF t = "create_subagent" THEN {"create", "status", "list"}
        ELSE IF t = "gist" THEN GistBranches
        ELSE SystemPromptBranches]
\* A call of one of the three tools has ended whose action is none of the
\* tool's actions.
UnknownCall ==
    /\ pc = "returned"
    /\ \A b \in ToolActions[tool[1]] : args[1].action # <<b>>
ListHeads == {"'. Valid actions are ", "'. Valid actions are: "}
\* The text of the result names, after "Valid actions are", exactly the actions
\* of the tool that was called.
ListsValidActions ==
    LET text == Content[1].text
    IN  \E i \in 1..Len(text) :
           /\ text[i] \in ListHeads
           /\ {text[j] : j \in (i + 1)..Len(text)} \ {", "} = ToolActions[tool[1]]

\* C14 as the specification states it: every call with an unrecognised action
\* returns an error whose text lists the tool's valid actions.
C14_Original ==
    UnknownCall =>
        /\ result[1].status = "error"
        /\ Len(Content) = 1
        /\ ListsValidActions

\* C14, amended: a call of gist or system_prompt with an unrecognised action,
\* and a call of create_subagent with an unrecognised action while
\* GITHUB_TOKEN is set, returns an error whose one text names the action and
\* lists the tool's valid actions.
C14_UnknownAction ==
    (UnknownCall /\ (tool = Some("create_subagent") => ~NoToken)) =>
        /\ result[1].status = "error"
        /\ Len(Content) = 1
        /\ ListsValidActions

\* A gist call whose action is a blank returned the error that lists the
\* thirteen actions of gist.
C14_Witness ==
    /\ UnknownCall
    /\ tool = Some("gist")
    /\ args[1].action = <<" ">>
    /\ result[1].status = "error"
    /\ Len(Content[1].text) = 29

\* A status call whose logs were fetched: the raw logs and the entry that shows
\* them.
LogsShown == MetadataSucceeded /\ LogsFetched
RawLogs == net[3].response.text
ExcerptEntry == Content[Len(Content)].text
\* The entry without its heading, the opening fence and the closing fence.
Excerpt == SubSeq(ExcerptEntry, 4, Len(ExcerptEntry) - 2)
TruncationMarker == "...\n[Logs truncated due to length]"

\* C15: the excerpt of raw logs L is L when len(L) <= 1000 and the first 1000
\* characters of L followed by the truncation marker when len(L) > 1000.
C15_LogExcerpt ==
    LogsShown =>
        /\ ExcerptEntry[1] = "Run Logs (excerpt):\n"
        /\ Len(RawLogs) <= 1000 => Excerpt = RawLogs
        /\ Len(RawLogs) > 1000 =>
              Excerpt = SubSeq(RawLogs, 1, 1000) \o <<TruncationMarker>>

\* A status call returned for logs of 1001 characters: the excerpt is 1000
\* characters and the marker.
C15_Witness ==
    /\ LogsShown
    /\ Len(RawLogs) = 1001
    /\ Len(Excerpt) = 1001
    /\ Excerpt[1001] = TruncationMarker

\* The host answered a list call with no runs: 200 and an object whose
\* workflow_runs is empty or missing.
ZeroRuns ==
    /\ CallIs("list")
    /\ Len(net) = 1
    /\ ~net[1].response.raised
    /\ net[1].response.status_code = 200
    /\ net[1].response.body.kind = "object"
    /\ \/ "workflow_runs" \notin DOMAIN net[1].response.body.data
       \/ Len(net[1].response.body.data.workflow_runs) = 0

\* C16: a list call that the host answers with zero runs returns success with
\* the one text "No recent sub-agent runs found".
C16_ZeroRunsIsSuccess ==
    ZeroRuns =>
        /\ result[1].status = "success"
        /\ Content = <<Text(<<"No recent sub-agent runs found">>)>>

\* A list call returned success after the host answered with an empty
\* workflow_runs array.
C16_Witness ==
    /\ ZeroRuns
    /\ "workflow_runs" \in DOMAIN net[1].response.body.data
    /\ result[1].status = "success"

ApiEndpoints == {"dispatches", "run", "logs", "runs"}

\* C17: every request to an API endpoint carries Accept, X-GitHub-Api-Version
\* and Authorization: Bearer {token}; the logs request is sent with redirects
\* off; the download is a request of its own to the Location of the 302 that
\* came just before it, and carries no header.
C17_HeadersAndManualRedirect ==
    Returned =>
        \A i \in 1..Len(net) :
            /\ net[i].endpoint \in ApiEndpoints =>
                  /\ DOMAIN net[i].headers =
                        {"Accept", "Authorization", "X-GitHub-Api-Version"}
                  /\ net[i].headers["Authorization"] = <<"Bearer ">> \o environ[1]
                  /\ net[i].headers["Accept"] = <<"application/vnd.github+json">>
                  /\ net[i].headers["X-GitHub-Api-Version"] = <<"2022-11-28">>
            /\ net[i].endpoint = "logs" => ~net[i].allow_redirects
            /\ net[i].endpoint = "download" =>
                  /\ "Authorization" \notin DOMAIN net[i].headers
                  /\ i > 1
                  /\ net[i - 1].endpoint = "logs"
                  /\ ~net[i - 1].response.raised
                  /\ net[i - 1].response.status_code = 302
                  /\ Truthy(net[i - 1].response.Location)
                  /\ net[i].url = net[i - 1].response.Location[1]
            /\ (/\ net[i].endpoint = "logs"
                /\ \/ net[i].response.raised
                   \/ net[i].response.status_code # 302
                   \/ ~Truthy(net[i].response.Location)) => Len(net) = i

\* A status call fetched the logs: metadata, logs endpoint, then the download.
C17_Witness ==
    /\ CallIs("status")
    /\ Len(net) = 3
    /\ net[3].endpoint = "download"
    /\ net[3].url = DownloadUrl
    /\ net[2].headers["Authorization"] = <<"Bearer ", "ghp_token">>

\* C18: a status or list call sends only GET requests and leaves the runs of
\* the host as they are; the only step that adds a run to the host is a create
\* call.
C18_PureObservers ==
    [][/\ (CallStep /\ args'[1].action \in {<<"status">>, <<"list">>}) =>
             /\ hostRuns' = hostRuns
             /\ \A i \in 1..Len(net') : net'[i].method = "GET"
       /\ Len(hostRuns') > Len(hostRuns) =>
             (CallStep /\ args'[1].action = <<"create">>)]_vars

\* A status call that made its three GET requests returned while the host had
\* a run.
C18_Witness ==
    /\ CallIs("status")
    /\ Len(net) = 3
    /\ \A i \in 1..3 : net[i].method = "GET"
    /\ Len(hostRuns) >= 1

\* What the two patterns find in the raw logs, and the entries of the content
\* between the five metadata entries and the excerpt.
FoundTasks == TaskFindAll(RawLogs, 1)
FoundEvent == EventSearch(RawLogs)
LogEntries == SubSeq(Content, 6, Len(Content) - 1)
TaskPart == IF Len(FoundTasks) > 0 THEN 1 + Len(FoundTasks) ELSE 0

\* C19: when the logs are fetched, the content has the heading "Agent Tasks:"
\* and one entry "Task i: ..." per match of the first pattern, trimmed and
\* numbered from 1 in match order, exactly when the first pattern matches; it
\* has one Event entry with the trimmed first match of the second pattern
\* exactly when the second pattern matches, after the task entries if there
\* are any.
C19_IndependentExtractions ==
    LogsShown =>
        /\ Len(LogEntries) = TaskPart + (IF Provided(FoundEvent) THEN 1 ELSE 0)
        /\ Len(FoundTasks) > 0 =>
              /\ LogEntries[1].text = <<"Agent Tasks:">>
              /\ \A k \in 1..Len(FoundTasks) :
                    LogEntries[1 + k].text =
                        <<"Task ">> \o IntToStr(k) \o <<": ">> \o Strip(FoundTasks[k])
        /\ Provided(FoundEvent) =>
              LogEntries[TaskPart + 1].text = <<"Event: ">> \o Strip(FoundEvent[1])

\* A status call returned for logs with two task announcements: the heading,
\* Task 1, Task 2 and the Event entry are all in the content.
C19_Witness ==
    /\ LogsShown
    /\ RawLogs = LogTwoTasks
    /\ Len(LogEntries) = 4
    /\ LogEntries[3].text = <<"Task ", "2", ": ", "b">>
    /\ LogEntries[4].text = <<"Event: ", "a">>

\* The remembered call was given what the call that has just ended was given.
SameAsEarlier ==
    /\ Provided(earlier)
    /\ earlier[1].tool = tool[1]
    /\ earlier[1].args = args[1]
    /\ earlier[1].environ = environ
    /\ earlier[1].responses = [i \in 1..Len(net) |-> net[i].response]

IntTexts == {ToString(n) : n \in {mt[1] : mt \in MaxTokens \ {NoneV}} \cup (0 - 1)..9}
IsInt(v) == ToString(v) \in IntTexts
IsStr(v) == ~IsInt(v)
\* The create call has sent its dispatch request.
CreateDispatch == CallIs("create") /\ Len(net) = 1 /\ net[1].endpoint = "dispatches"

\* C21: every value of the inputs mapping a create call dispatches is a str,
\* whatever parameters were supplied; max_tokens, an int, is sent as its decimal
\* text, and every other supplied parameter as the text it was given.
C21_InputsAreStrings ==
    CreateDispatch =>
        /\ \A k \in DOMAIN DispatchedInputs : IsStr(DispatchedInputs[k])
        /\ Provided(args[1].max_tokens) =>
              DispatchedInputs["max_tokens"] = IntToStr(args[1].max_tokens[1])
        /\ \A k \in OptionalInputs \ {"max_tokens"} :
              Provided(args[1][k]) => DispatchedInputs[k] = args[1][k][1]

\* A create call with max_tokens = 4096 and every other optional parameter
\* supplied has dispatched the four digits.
C21_Witness ==
    /\ CreateDispatch
    /\ \A k \in OptionalInputs : Provided(args[1][k])
    /\ IsInt(args[1].max_tokens[1])
    /\ DispatchedInputs["max_tokens"] = <<"4", "0", "9", "6">>

\* The endpoints a status call asks, in the order it asks them.
StatusOrder == <<"run", "logs", "download">>
\* The logs endpoint answered with a redirect that names the download.
LogsRedirected ==
    /\ ~net[2].response.raised
    /\ net[2].response.status_code = 302
    /\ Truthy(net[2].response.Location)

\* C24: every call returns after a bounded sequence of HTTP requests, each with
\* the 30 second timeout: create and list make at most one, an unknown action
\* none, status at most three, which are GET requests in the order run metadata,
\* logs endpoint, log download.  The logs endpoint is asked only after the
\* metadata request succeeded, the download only after the logs endpoint
\* answered with a redirect, and a run that is not completed is not waited for:
\* the call returns after the metadata request.
C24_BoundedCallOrder ==
    Returned =>
        /\ \A i \in 1..Len(net) : net[i].timeout = 30
        /\ (CallIs("create") \/ CallIs("list")) => Len(net) <= 1
        /\ ~(CallIs("create") \/ CallIs("list") \/ CallIs("status")) => Len(net) = 0
        /\ CallIs("status") =>
              /\ Len(net) <= 3
              /\ \A i \in 1..Len(net) :
                    net[i].method = "GET" /\ net[i].endpoint = StatusOrder[i]
              /\ Len(net) >= 2 => MetadataSucceeded
              /\ Len(net) = 3 => LogsRedirected
              /\ (MetadataSucceeded /\ ReportedStatus # Some(<<"completed">>)) =>
                    Len(net) = 1

\* A status call made its three requests and the download failed; the call
\* returned.
C24_Witness ==
    /\ CallIs("status")
    /\ Len(net) = 3
    /\ net[3].endpoint = "download"
    /\ net[3].response.raised

\* A call that fails a check of its own: create without a task, status without
\* a run_id, or an action the tool does not know.
FailsValidation ==
    \/ CallIs("create") /\ ~Truthy(args[1].task)
    \/ CallIs("status") /\ ~Truthy(args[1].run_id)
    \/ Returned /\ args[1].action \notin {<<"create">>, <<"status">>, <<"list">>}
ValidationTexts ==
    {<<"Error: 'task' parameter is required for the create action">>,
     <<"Error: run_id parameter is required for the status action">>}

\* C27: in create_subagent the token is checked before anything else: with
\* GITHUB_TOKEN unset or empty, a create call without task, a status call without
\* run_id and a call with an unknown action return the error "GitHub token not
\* available", not the validation error and not the unknown-action error.
C27_CredentialCheckFirst ==
    (FailsValidation /\ NoToken) =>
        /\ result[1].status = "error"
        /\ result[1].content = TokenError
        /\ result[1].content[1].text \notin ValidationTexts
        /\ result[1].content[1].text[1] # "Error: Unknown action '"

\* A call with the unknown action "creat" returned with GITHUB_TOKEN unset.
C27_Witness ==
    /\ FailsValidation
    /\ args[1].action = <<"creat">>
    /\ IsNone(environ)
    /\ result[1].status = "error"

\* ----------------------------------------------- properties of system_prompt
\* Stated over a step that is a call of system_prompt: os.environ before the
\* call (unprimed), and the call's frame and os.environ after it (primed).

PromptReturned == pc = "returned" /\ tool = Some("system_prompt")
PromptIs(action) == PromptReturned /\ args[1].action = <<action>>
\* The prompt variable the call names, as os.environ holds it.
Stored == EnvGet(os_environ, args[1].variable_name)
\* The text of a view result: "Current system prompt from ", the variable name,
\* " (from ", the source, "):\n\n", the prompt.
ViewText == result[1].content[1].text
ViewMarker == CHOOSE i \in 1..Len(ViewText) : ViewText[i] = "):\n\n"
ViewedSource == SubSeq(ViewText, 4, ViewMarker - 1)
ViewedPrompt == SubSeq(ViewText, ViewMarker + 1, Len(ViewText))
\* The call read the repository variable and the repository gave its value.
FetchSucceeded ==
    \E i \in 1..Len(net) :
        /\ net[i].method = "GET"
        /\ ~net[i].response.raised
        /\ net[i].response.status_code = 200
        /\ net[i].response.body.kind = "object"
FetchedValue ==
    LET i == CHOOSE k \in 1..Len(net) : net[k].method = "GET"
    IN  IF "value" \in DOMAIN net[i].response.body.data
        THEN net[i].response.body.data.value ELSE <<>>
\* The last call was update without a repository, and it succeeded.
UpdatedInMemory ==
    /\ PromptIs("update")
    /\ ~Truthy(args[1].repository)
    /\ result[1].status = "success"

\* C23: the round trip of system_prompt.  A view call that follows a successful
\* update(prompt = p, variable_name = v) without repository, for the same v,
\* returns p and makes no request; after reset(variable_name = v) without
\* repository the variable v is not in os.environ; and add_context(context = c)
\* leaves in the variable the prompt in effect before the call (the variable's
\* value, or, when that is empty, the value the repository gave during the call)
\* followed by a blank line and c, or just c when that prompt is empty.
C23_RoundTrip ==
    [][/\ (UpdatedInMemory /\ PromptIs("view")'
           /\ args'[1].variable_name = args[1].variable_name) =>
              /\ result'[1].status = "success"
              /\ ViewedPrompt' = args[1].prompt[1]
              /\ net' = <<>>
       /\ (PromptIs("reset")' /\ ~Truthy(args'[1].repository)) =>
              /\ IsNone(os_environ'[args'[1].variable_name[1]])
              /\ result'[1].status = "success"
       /\ (PromptIs("add_context")' /\ Truthy(args'[1].context)) =>
              Stored' =
                 IF Len(EnvGet(os_environ, args'[1].variable_name)) > 0
                 THEN EnvGet(os_environ, args'[1].variable_name)
                      \o <<"\n\n">> \o args'[1].context[1]
                 ELSE IF FetchSucceeded' /\ Len(FetchedValue') > 0
                 THEN FetchedValue' \o <<"\n\n">> \o args'[1].context[1]
                 ELSE args'[1].context[1]]_vars

\* A view of AGENT_BUILDER_SYSTEM_PROMPT returned, without a request, the prompt
\* that only an update call puts there.
C23_Witness ==
    /\ PromptIs("view")
    /\ args[1].variable_name = <<"AGENT_BUILDER_SYSTEM_PROMPT">>
    /\ ViewedPrompt = <<"You are a reviewer">>
    /\ net = <<>>

\* A call of update, add_context or reset with a repository that passed the
\* check of its own parameter (prompt, context) has returned an error.
ChangeFailed ==
    /\ \/ PromptIs("update") /\ Truthy(args[1].prompt)
       \/ PromptIs("add_context") /\ Truthy(args[1].context)
       \/ PromptIs("reset")
    /\ Truthy(args[1].repository)
    /\ result[1].status = "error"
\* The requests of the call that were sent when os.environ was not yet as the
\* call left it.
SentBeforeChange == {i \in 1..Len(net) : net[i].environ # os_environ}
\* What the repository gave when the call read the variable ("" if it did not).
Fetched == IF FetchSucceeded THEN FetchedValue ELSE <<>>
\* The value the call a was to give the variable, which held before, when the
\* repository gave fetched: None for reset.
NewValue(a, before, fetched) ==
    IF a.action = <<"reset">> THEN NoneV
    ELSE IF a.action = <<"update">> THEN a.prompt
    ELSE IF Len(before) > 0 THEN Some(before \o <<"\n\n">> \o a.context[1])
    ELSE IF Len(fetched) > 0 THEN Some(fetched \o <<"\n\n">> \o a.context[1])
    ELSE a.context
\* The step is a call after which the variable holds the new value.
ChangeKept ==
    os_environ'[args'[1].variable_name[1]] =
        NewValue(args'[1], EnvGet(os_environ, args'[1].variable_name), Fetched')

\* C28 as stated: update, add_context and reset change the variable before any
\* request to GitHub and never roll it back.
C28_Original ==
    [][ChangeFailed' =>
          /\ SentBeforeChange' = {}
          /\ ChangeKept]_vars

\* C28: update, add_context and reset change the variable in os.environ before
\* they write to GitHub and never roll it back: when such a call, made with a
\* repository, returns an error (no token, the PATCH rejected, the PATCH raising)
\* the variable holds the new value (is removed, for reset) and every PATCH was
\* sent with the variable already changed.  Only add_context asks GitHub
\* before the change: the GET that reads the repository variable when the local
\* variable is empty.
C28_LocalChangeKept ==
    [][ChangeFailed' =>
          /\ \A i \in SentBeforeChange' :
                net'[i].method = "GET" /\ args'[1].action = <<"add_context">>
          /\ ChangeKept]_vars

\* An update with a repository was rejected by GitHub; the variable holds the new
\* prompt.
C28_Witness ==
    /\ ChangeFailed
    /\ PromptIs("update")
    /\ Len(net) = 1
    /\ net[1].method = "PATCH"
    /\ net[1].response.status_code = 404
    /\ Stored = <<"You are a reviewer">>

\* C29: a view call names its source "local environment" exactly when the
\* prompt it returns was read from the variable of os.environ as it stood when
\* the call began, and "GitHub repository {repository}" exactly when the prompt
\* was fetched from the repository variable during the call.
C29_ViewSource ==
    [][PromptIs("view")' =>
          /\ ViewedSource' = <<"GitHub repository ">> \o Fmt(args'[1].repository)
                <=> FetchSucceeded'
          /\ ViewedSource' = <<"local environment">> <=> ~FetchSucceeded']_vars

\* ------------------------------------------- properties of fetch_github_tool

\* A call of fetch_github_tool has ended.
FetchReturned == pc = "returned" /\ tool = Some("fetch_github_tool")

\* The file paths the documented URL formats give for url:
\*   https://raw.githubusercontent.com/owner/repo/branch/path
\*   https://github.com/owner/repo/blob/branch/path  (or tree)
\* owner, repo and branch are not empty and hold no slash, path is not empty;
\* the path ends at the end of the line.
SlashFree(s) == Len(s) > 0 /\ \A i \in 1..Len(s) : s[i] # "/"
LineFrom(url, k) ==
    SubSeq(url, k,
           CHOOSE e \in (k - 1)..Len(url) :
              /\ \A i \in k..e : url[i] # "\n"
              /\ e = Len(url) \/ url[e + 1] = "\n")
SlashAt(url, i) == i \in 1..Len(url) /\ url[i] = "/"
\* The positions of the slash that ends a part starting at position from.
PartEnds(url, from) ==
    {i \in (from + 1)..Len(url) : url[i] = "/" /\ SlashFree(SubSeq(url, from, i - 1))}
RawPaths(url) ==
    IF ~StartsWith(url, RawPrefix) THEN {}
    ELSE {LineFrom(url, k + 1) : k \in
            UNION {UNION {PartEnds(url, j + 1) : j \in PartEnds(url, i + 1)} :
                      i \in PartEnds(url, Len(RawPrefix) + 1)}}
BlobPaths(url) ==
    IF ~StartsWith(url, BlobPrefix) THEN {}
    ELSE {LineFrom(url, l + 1) : l \in
            UNION {UNION {IF SlashAt(url, j + 2) /\ url[j + 1] \in {"blob", "tree"}
                          THEN PartEnds(url, j + 3) ELSE {} :
                             j \in PartEnds(url, i + 1)} :
                      i \in PartEnds(url, Len(BlobPrefix) + 1)}}
SupportedPaths(url) == {p \in RawPaths(url) \cup BlobPaths(url) : Len(p) > 0}
UnsupportedFormat(url) == SupportedPaths(url) = {}
NotPython(url) == \E p \in SupportedPaths(url) : p[Len(p)] # ".py"

\* C26: a call of fetch_github_tool whose URL matches none of the supported
\* formats, or whose file path does not end in .py, returns status "error",
\* has made no HTTP request, and leaves the file system (no directory, no
\* file created) and the agent's registry as they were before the call.
C26_RejectsBeforeEffects ==
    [][(FetchReturned' /\ (UnsupportedFormat(args'[1].github_url)
                            \/ NotPython(args'[1].github_url)))
          => /\ result'[1].status = "error"
             /\ net' = <<>>
             /\ files' = files
             /\ agent' = agent]_vars

\* A call with a supported URL whose path is no .py file was rejected when
\* earlier calls had already created a directory and a file.
C26_Witness ==
    /\ FetchReturned
    /\ NotPython(args[1].github_url)
    /\ result[1].status = "error"
    /\ net = <<>>
    /\ \E p \in DOMAIN files : ~files[p].dir

\* ----------------------------------------------- properties of _filter_tools

\* _filter_tools has returned (or raised).
ToolsFiltered == pc = "returned" /\ tool = Some("_filter_tools")
ToolFilterStr == os_getenv(os_environ, "STRANDS_TOOLS")
AllToolsGiven == args[1].all_tools
\* Every tool, unfiltered: the same mapping.
AllReturned == ~result[1].raised /\ result[1].tools = AllToolsGiven
UnsetEmptyOrAll == ~Truthy(ToolFilterStr) \/ ToolFilterStr[1] = <<"ALL">>

\* The requested entries: the elements of the JSON array, else the
\* comma-separated items without surrounding blanks, the empty ones dropped.
IsJsonArray ==
    ~IsRaise(json_loads(ToolFilterStr[1])) /\ json_loads(ToolFilterStr[1]).kind = "list"
Requested ==
    IF IsJsonArray THEN json_loads(ToolFilterStr[1]).items
    ELSE CommaSeparated(ToolFilterStr[1])
RequestedNames ==
    {Requested[i].str : i \in {j \in 1..Len(Requested) : Requested[j].kind = "str"}}
\* The requested entries that name no available tool, as they are printed.
Unavailable ==
    {Requested[i].str : i \in {j \in 1..Len(Requested) :
        Requested[j].kind # "str" \/ Requested[j].str \notin DOMAIN AllToolsGiven}}
Warned(name) == \E i \in 1..Len(stdout) : stdout[i] = NotFoundWarning(name)

\* The result is the intersection of the requested names with the available
\* ones, each name with its tool, and every other requested entry is warned of.
IsIntersection ==
    /\ ~result[1].raised
    /\ DOMAIN result[1].tools = RequestedNames \cap DOMAIN AllToolsGiven
    /\ \A n \in DOMAIN result[1].tools : result[1].tools[n] = AllToolsGiven[n]
    /\ \A n \in Unavailable : Warned(n)
\* One line is printed for every requested entry that is not available.
OneWarningEach ==
    Len(stdout) = Cardinality({i \in 1..Len(Requested) :
                                  Requested[i].str \in Unavailable})

\* The array holds an array: the membership test cannot hash it.
HoldsList == \E i \in 1..Len(Requested) : Requested[i].kind = "list"

IsBlank(t) == \A i \in 1..Len(t) : t[i] = " "
MissingOrBlank == Len(argv) < 2 \/ \A i \in 2..Len(argv) : IsBlank(argv[i])
Exited == pc = "exited"
\* An exception was raised inside run_agent.
FailedInRunAgent == ~IsNone(result) /\ result[1].raised
PrintedFatal ==
    \E i \in 1..Len(stdout) : Len(stdout[i]) > 0 /\ stdout[i][1] = "Fatal error: "
PrintedFailure(e) ==
    \E i \in 1..Len(stdout) :
       stdout[i] = CrossMark \o <<" Agent execution failed: ">> \o e.message

\* C30: the runner exits with code 1 exactly when the task argument is missing
\* or blank, and with code 0 otherwise; an exception raised inside run_agent is
\* printed by run_agent, is not printed as a fatal error by main, and the exit
\* code is 0.
C30_ExitCode ==
    Exited =>
        /\ exit_code = (IF MissingOrBlank THEN Some(1) ELSE Some(0))
        /\ PrintedFatal <=> MissingOrBlank
        /\ FailedInRunAgent =>
              /\ PrintedFailure(result[1].error)
              /\ ~PrintedFatal
              /\ exit_code = Some(0)

\* The run ended with code 0 although run_agent failed on an inconsistent
\* session configuration.
C30_Witness ==
    /\ Exited
    /\ exit_code = Some(0)
    /\ FailedInRunAgent
    /\ result[1].error.class = "ValueError"
    /\ Truthy(os_getenv(os_environ, "S3_SESSION_BUCKET"))
    /\ ~Truthy(os_getenv(os_environ, "SESSION_ID"))

\* The latest message of the session is one toolUse of handoff_to_user.
HandoffPending(messages) ==
    /\ Len(messages) > 0
    /\ Len(messages[Len(messages)].content) = 1
    /\ \E item \in {messages[Len(messages)].content[1]} :
          item.kind = "toolUse" /\ item.name = <<"handoff_to_user">>
PendingId(messages) == messages[Len(messages)].content[1].toolUseId
Invoking == pc = "agent" /\ pc' # "agent"

====
